---- MODULE Spec2Model ----
(***************************************************************************)
(* Strategy recommendation engine of shorttrack-analytics                  *)
(* (src/unnamed/part_001, imported by the pages as lib/strategy).          *)
(*                                                                         *)
(* The engine is a set of pure functions over JavaScript numbers.  The     *)
(* model keeps every quantity as an integer in a fixed unit:               *)
(*   SkaterStats.threat_score           tenths      (59.6  -> 596)         *)
(*   SkaterStats.avg_passes_per_race    thousandths (2.345 -> 2345)        *)
(*   penalty_rate, crash_rate,                                             *)
(*   win_rate, top2_rate                thousandths (0.234 -> 234)         *)
(*   OpponentThreat.threat_score        units (it is Math.round-ed)        *)
(*   OpponentThreat.avg_passes_per_race hundredths (rounded to 2 places)   *)
(*   composite strengths                thousandths                        *)
(* Counts (races, passes, medals, laps, lanes, percentages) are plain      *)
(* integers.  Identity-only fields (flag, nationality) are left out; the   *)
(* name identifies a skater.                                               *)
(***************************************************************************)
EXTENDS Integers, Sequences, FiniteSets, TLC

VARIABLES args, ret, pc

vars == <<args, ret, pc>>

-----------------------------------------------------------------------------
(* Arithmetic helpers: what Math.round, Math.min and Math.max do.          *)

Min(a, b) == IF a <= b THEN a ELSE b

Max(a, b) == IF a >= b THEN a ELSE b

\* Math.round(n / d) for d > 0: the nearest integer, halves towards +infinity.
RoundDiv(n, d) == (2 * n + d) \div (2 * d)

\* An absent numeric field reads as undefined, and arithmetic on undefined
\* gives NaN, which every further operation hands on.  Both are this value,
\* which lies outside the range of every quantity of the model; operators
\* that can receive it test for it before they compute or compare.
NaN == -1000000

\* x || 0 and x ?? 0 on a field that is a number or absent
orZero(x) == IF x = NaN THEN 0 ELSE x

RECURSIVE SumSeq(_)
SumSeq(s) == IF s = <<>> THEN 0 ELSE Head(s) + SumSeq(Tail(s))

\* Array.prototype.slice(0, n)
Slice(s, n) == SubSeq(s, 1, Min(n, Len(s)))

Range(s) == { s[i] : i \in 1..Len(s) }

-----------------------------------------------------------------------------
(* Style tags (types/data.ts) and the per-distance lap table.              *)

Styles ==
  { "late_mover", "front_runner", "mid_surge", "balanced", "no_passes",
    "developing", "sprint", "unknown" }

\* TOTAL_LAPS without the "|| 9" default
TOTAL_LAPS_noDefault(distance) ==
  CASE distance = "500"  -> 5
    [] distance = "1000" -> 9
    [] distance = "1500" -> 14
    [] OTHER             -> 0

\* TOTAL_LAPS[distance] || 9
TOTAL_LAPS(distance) ==
  CASE distance = "500"  -> 5
    [] distance = "1000" -> 9
    [] distance = "1500" -> 14
    [] OTHER             -> 9

-----------------------------------------------------------------------------
(* Threat evaluator.                                                       *)

\* computeThreatLevel with strict comparisons
computeThreatLevel_strict(threatScore) ==
  IF threatScore > 600 THEN "high"
  ELSE IF threatScore > 300 THEN "medium"
  ELSE "low"

\* threatScore in tenths
computeThreatLevel(threatScore) ==
  IF threatScore >= 600 THEN "high"
  ELSE IF threatScore >= 300 THEN "medium"
  ELSE "low"

\* (medals.gold || 0) + (medals.silver || 0) + (medals.bronze || 0); an absent
\* medals object is one with every count absent
medalsTotal(medals) == orZero(medals.gold) + orZero(medals.silver) + orZero(medals.bronze)

buildOpponentThreat(skater) ==
  LET stats == skater.stats
      threatScore == orZero(stats.threat_score)
  IN [ name                |-> skater.name,
       style               |-> stats.style,
       threat_score        |-> RoundDiv(threatScore, 10),
       threatLevel         |-> computeThreatLevel(threatScore),
       net_passes          |-> stats.net_passes,
       avg_passes_per_race |-> IF stats.avg_passes_per_race = NaN THEN NaN
                               ELSE RoundDiv(stats.avg_passes_per_race, 10),
       total_races         |-> stats.total_races,
       medals_total        |-> medalsTotal(stats.medals),
       penalties           |-> orZero(stats.penalties),
       crash_count         |-> orZero(stats.crashes_inferred),
       penalty_rate        |-> orZero(stats.penalty_rate),
       crash_rate          |-> orZero(stats.crash_rate) ]

-----------------------------------------------------------------------------
(* Pace planner.                                                           *)


\* paceBase with 35 typed for 25 in the front_runner row
paceBase_typo(style) ==
  CASE style = "front_runner" -> [early |-> 40, middle |-> 35, late |-> 35]
    [] style = "late_mover"   -> [early |-> 25, middle |-> 35, late |-> 40]
    [] style = "mid_surge"    -> [early |-> 30, middle |-> 40, late |-> 30]
    [] style = "balanced"     -> [early |-> 33, middle |-> 34, late |-> 33]
    [] style = "no_passes"    -> [early |-> 33, middle |-> 34, late |-> 33]
    [] OTHER                  -> [early |-> 33, middle |-> 34, late |-> 33]

paceBase(style) ==
  CASE style = "front_runner" -> [early |-> 40, middle |-> 35, late |-> 25]
    [] style = "late_mover"   -> [early |-> 25, middle |-> 35, late |-> 40]
    [] style = "mid_surge"    -> [early |-> 30, middle |-> 40, late |-> 30]
    [] style = "balanced"     -> [early |-> 33, middle |-> 34, late |-> 33]
    [] style = "no_passes"    -> [early |-> 33, middle |-> 34, late |-> 33]
    [] OTHER                  -> [early |-> 33, middle |-> 34, late |-> 33]

Shift(pace, de, dm, dl) ==
  [early |-> pace.early + de, middle |-> pace.middle + dm, late |-> pace.late + dl]

distanceAdjust(pace, distance) ==
  IF distance = "500" THEN Shift(pace, 5, 0, -5)
  ELSE IF distance = "1500" THEN Shift(pace, -5, 0, 5)
  ELSE pace

\* laneAdjust with 30 typed for 3 on the outside lanes
laneAdjust_typo(pace, lane) ==
  IF lane <= 2 THEN Shift(pace, -3, 3, 0)
  ELSE IF lane >= 4 THEN Shift(pace, 30, 0, -30)
  ELSE pace

laneAdjust(pace, lane) ==
  IF lane <= 2 THEN Shift(pace, -3, 3, 0)
  ELSE IF lane >= 4 THEN Shift(pace, 3, 0, -3)
  ELSE pace

threatSum(opponents) == SumSeq([i \in 1..Len(opponents) |-> opponents[i].threat_score])

\* fieldAdjust with the two branches exchanged
fieldAdjust_swapped(pace, opponents) ==
  IF Len(opponents) > 0
  THEN IF threatSum(opponents) > 50 * Len(opponents) THEN Shift(pace, -3, 0, 3)
       ELSE IF threatSum(opponents) < 25 * Len(opponents) THEN Shift(pace, 2, 1, -3)
       ELSE pace
  ELSE pace

\* avgThreat > 50 and avgThreat < 25, with avgThreat = threatSum / length
fieldAdjust(pace, opponents) ==
  IF Len(opponents) > 0
  THEN IF threatSum(opponents) > 50 * Len(opponents) THEN Shift(pace, 2, 1, -3)
       ELSE IF threatSum(opponents) < 25 * Len(opponents) THEN Shift(pace, -3, 0, 3)
       ELSE pace
  ELSE pace

\* normalizePace with the remainder taken from early alone
normalizePace_lateDropsMiddle(pace) ==
  LET total  == pace.early + pace.middle + pace.late
      early  == RoundDiv(pace.early * 100, total)
      middle == RoundDiv(pace.middle * 100, total)
  IN [early |-> early, middle |-> middle, late |-> 100 - early]

normalizePace(pace) ==
  LET total  == pace.early + pace.middle + pace.late
      early  == RoundDiv(pace.early * 100, total)
      middle == RoundDiv(pace.middle * 100, total)
  IN [early |-> early, middle |-> middle, late |-> 100 - early - middle]

computePace(style, distance, lane, opponents) ==
  normalizePace(
    fieldAdjust(laneAdjust(distanceAdjust(paceBase(style), distance), lane),
                opponents))

-----------------------------------------------------------------------------
(* JavaScript objects with optional keys are functions; a key is present   *)
(* when it is in the domain.  null and undefined are the empty object.     *)

Has(obj, key) == key \in DOMAIN obj

Null == <<>>

\* [...opponents].sort((a, b) => b.threat_score - a.threat_score):
\* a copy, stable, by non-increasing threat_score.
RECURSIVE insertByThreat(_, _)
insertByThreat(sorted, o) ==
  IF sorted = <<>> THEN <<o>>
  ELSE IF Head(sorted).threat_score >= o.threat_score
       THEN <<Head(sorted)>> \o insertByThreat(Tail(sorted), o)
       ELSE <<o>> \o sorted

RECURSIVE sortByThreat(_)
sortByThreat(opponents) ==
  IF opponents = <<>> THEN <<>>
  ELSE insertByThreat(sortByThreat(SubSeq(opponents, 1, Len(opponents) - 1)),
                      opponents[Len(opponents)])

\* Array.prototype.sort reorders the array it is called on.  The two arrays
\* at hand are the caller's ("argument") and the one [...opponents]
\* allocates ("copy"); sortTarget is the one the sort is called on.

\* the sort called on the caller's array itself
sortTarget_argument == "argument"

sortTarget == "copy"


\* arraysAfterSort with a sort that leaves equal scores in reverse order
arraysAfterSort_tiesReversed(opponents) ==
  LET spread   == [a \in { "argument", "copy" } |-> opponents]
      reversed == [i \in 1..Len(opponents) |-> opponents[Len(opponents) + 1 - i]]
  IN [spread EXCEPT ![sortTarget] = sortByThreat(reversed)]

\* both arrays once the sort has run
arraysAfterSort(opponents) ==
  LET spread == [a \in { "argument", "copy" } |-> opponents]
  IN [spread EXCEPT ![sortTarget] = sortByThreat(@)]

\* the caller's opponents array when generateStrategy returns
opponentsAfterCall(opponents) == arraysAfterSort(opponents)["argument"]

-----------------------------------------------------------------------------
(* Matchup analyzer.                                                       *)

\* opp.style || 'balanced'
styleOr(style) == IF style = "" THEN "balanced" ELSE style

matchupInsight(myStyle, opp, matchup) ==
  LET wr           == matchup.win_rate
      advantage    == wr > 550
      disadvantage == wr < 450
      note == IF advantage THEN <<"wins", RoundDiv(wr, 10)>>
              ELSE IF disadvantage THEN <<"beats", RoundDiv(1000 - wr, 10)>>
              ELSE <<"even", RoundDiv(wr, 10)>>
  IN [ opponent     |-> opp.name,
       advantage    |-> advantage,
       disadvantage |-> disadvantage,
       winRate      |-> wr,
       myStyle      |-> myStyle,
       oppStyle     |-> styleOr(opp.style),
       note         |-> note ]

RECURSIVE insightsOf(_, _, _)
insightsOf(myStyle, opps, myMatchups) ==
  IF opps = <<>> THEN <<>>
  ELSE LET opp      == Head(opps)
           oppStyle == styleOr(opp.style)
           here     == IF Has(myMatchups, oppStyle) /\ myMatchups[oppStyle].total >= 5
                       THEN <<matchupInsight(myStyle, opp, myMatchups[oppStyle])>>
                       ELSE <<>>
       IN here \o insightsOf(myStyle, Tail(opps), myMatchups)

\* buildMatchupInsights without the slice(0, 3)
buildMatchupInsights_noSlice(myStyle, opponents, styleMatchups) ==
  IF ~Has(styleMatchups, myStyle) THEN <<>>
  ELSE insightsOf(myStyle, opponents, styleMatchups[myStyle])

buildMatchupInsights(myStyle, opponents, styleMatchups) ==
  IF ~Has(styleMatchups, myStyle) THEN <<>>
  ELSE insightsOf(myStyle, Slice(opponents, 3), styleMatchups[myStyle])

-----------------------------------------------------------------------------
(* Win probability model.                                                  *)

\* 40 * atanh((k - 0.5) / 50) for k = 1..49, in units of 10^-7, rounded up:
\* the strength gaps at which round(50 * (2 / (1 + e^(-gap/20)) - 1))
\* steps from k-1 to k.  A gap of 100, the largest possible, gives 49.
SigmoidSteps ==
  << 4000134, 12003602, 20016692, 28045869, 36097676, 44178767, 52295941,
     60456175, 68666666, 76934868, 85268539, 93675787, 102165125, 110745530,
     119426506, 128218164, 137131302, 146177502, 155369240, 164720014,
     174244490, 183958673, 193880112, 204028135, 214424135, 225091908,
     236058064, 247352526, 259009138, 271066428, 283568544, 296566458,
     310119483, 324297251, 339182303, 354873546, 371490946, 389182030,
     408131104, 428572674, 450811611, 475254562, 502461125, 533231852,
     568770349, 611009771, 663356008, 732712330, 836918289 >>

\* num / den thousandths >= SigmoidSteps[k], without leaving 32 bits
reachesStep(num, den, k) ==
  num * 100 >= (SigmoidSteps[k] \div 100) * den
               + ((SigmoidSteps[k] % 100) * den + 99) \div 100

\* Math.round(50 * (2 / (1 + Math.exp(-delta / 20)) - 1)), delta = num / den
\* thousandths, den > 0
sigmoidAdj(num, den) ==
  LET a     == IF num >= 0 THEN num ELSE -num
      steps == Cardinality({ k \in 1..Len(SigmoidSteps) : reachesStep(a, den, k) })
  IN IF num >= 0 THEN steps ELSE -steps

\* Math.min(30, Math.max(-10, net / races * 15)), thousandths
passTerm(net, races) == Min(30000, Max(-10000, (net * 15000) \div races))

\* gold * 3 + silver * 2 + bronze
weightedMedals(medals) ==
  orZero(medals.gold) * 3 + orZero(medals.silver) * 2 + orZero(medals.bronze)

myStrengthOf(mySkater) ==
  LET stats   == mySkater.stats
      myRaces == IF orZero(stats.total_races) = 0 THEN 1 ELSE stats.total_races
  IN Min(100000, Max(0,
       orZero(stats.threat_score) * 40
       + passTerm(orZero(stats.net_passes), myRaces)
       + Min(20000, orZero(stats.avg_passes_per_race) * 5)
       + Min(20000, weightedMedals(stats.medals) * 2000)))

\* net_passes, total_races and avg_passes_per_race are used as they are:
\* Math.min and Math.max return NaN when an argument is undefined or NaN
oppStrengthOf(o) ==
  IF o.net_passes = NaN \/ o.total_races = NaN \/ o.avg_passes_per_race = NaN
  THEN NaN
  ELSE orZero(o.threat_score) * 400
       + passTerm(o.net_passes, Max(1, o.total_races))
       + Min(20000, o.avg_passes_per_race * 50)
       + Min(20000, orZero(o.medals_total) * 2000)

oppStrengthSum(opponents) ==
  IF \E i \in 1..Len(opponents) : oppStrengthOf(opponents[i]) = NaN
  THEN NaN
  ELSE SumSeq([i \in 1..Len(opponents) |-> oppStrengthOf(opponents[i])])

\* sum over the insights of (winRate - 0.5) * 30 where advantage or
\* disadvantage is set, thousandths
totalAdvOf(matchupInsights) ==
  SumSeq([i \in 1..Len(matchupInsights) |->
            IF matchupInsights[i].advantage \/ matchupInsights[i].disadvantage
            THEN (matchupInsights[i].winRate - 500) * 30
            ELSE 0])

matchupAdjOf(matchupInsights) ==
  LET n == Len(matchupInsights)
  IN IF n > 0
     THEN RoundDiv(Max(-15000 * n, Min(15000 * n, totalAdvOf(matchupInsights))),
                   1000 * n)
     ELSE 0

explanationOf(lane, laneBase, strengthAdj, matchupAdj, hasOpponents) ==
  IF ~hasOpponents
  THEN << <<"Lane base only (no opponents selected)", lane>> >>
  ELSE << <<"Lane base", lane, laneBase>> >>
       \o (IF strengthAdj = NaN THEN << <<"Strength: even", 0>> >>
           ELSE IF strengthAdj > 0 THEN << <<"Strength edge", strengthAdj>> >>
           ELSE IF strengthAdj < 0 THEN << <<"Strength gap", strengthAdj>> >>
           ELSE << <<"Strength: even", 0>> >>)
       \o (IF matchupAdj > 0 THEN << <<"Style matchup", matchupAdj>> >>
           ELSE IF matchupAdj < 0 THEN << <<"Style matchup", matchupAdj>> >>
           ELSE <<>>)

\* avgOppStrengthNum defaulting to zero when there are no opponents
avgOppStrengthNum_zero(myStrength, opponents) ==
  IF Len(opponents) > 0
  THEN Min(100000 * Len(opponents), Max(0, oppStrengthSum(opponents)))
  ELSE 0

\* avgOppStrength as the fraction num / Len(opponents); with no opponents
\* it is myStrength itself
avgOppStrengthNum(myStrength, opponents) ==
  IF Len(opponents) > 0
  THEN IF oppStrengthSum(opponents) = NaN THEN NaN
       ELSE Min(100000 * Len(opponents), Max(0, oppStrengthSum(opponents)))
  ELSE myStrength

\* overallOf without the clamp
overallOf_unclamped(rawWin) == rawWin

\* Math.round(Math.max(1, Math.min(99, rawWin)))
overallOf(rawWin) == IF rawWin = NaN THEN NaN ELSE Max(1, Min(99, rawWin))

\* Math.round(Math.max(2, Math.min(99, rawPodium))), rawPodium in tenths
podiumOf(rawPodium) ==
  IF rawPodium = NaN THEN NaN ELSE RoundDiv(Max(20, Min(990, rawPodium)), 10)


\* laneAdvData?.win_rate != null ? Math.round(laneAdvData.win_rate * 100) : 20
laneBaseOf(laneAdvData) ==
  IF Has(laneAdvData, "win_rate") THEN RoundDiv(laneAdvData.win_rate, 10) ELSE 20

\* laneTop2Of with the default of the win rate
laneTop2Of_winDefault(laneAdvData) ==
  IF Has(laneAdvData, "top2_rate") THEN RoundDiv(laneAdvData.top2_rate, 10) ELSE 20

\* laneAdvData?.top2_rate != null ? Math.round(laneAdvData.top2_rate * 100) : 40
laneTop2Of(laneAdvData) ==
  IF Has(laneAdvData, "top2_rate") THEN RoundDiv(laneAdvData.top2_rate, 10) ELSE 40

computeWinProbability(mySkater, lane, distance, opponents, matchupInsights, laneAdvData) ==
  LET laneBase == laneBaseOf(laneAdvData)
      laneTop2 == laneTop2Of(laneAdvData)
      myStrength   == myStrengthOf(mySkater)
      hasOpponents == Len(opponents) > 0
      oppDen       == IF hasOpponents THEN Len(opponents) ELSE 1
      oppNum       == avgOppStrengthNum(myStrength, opponents)
      strengthAdj  == IF oppNum = NaN THEN NaN
                      ELSE sigmoidAdj(myStrength * oppDen - oppNum, oppDen)
      matchupAdj   == matchupAdjOf(matchupInsights)
      rawWin       == IF strengthAdj = NaN THEN NaN
                      ELSE laneBase + strengthAdj + matchupAdj
      rawPodium    == IF strengthAdj = NaN THEN NaN
                      ELSE laneTop2 * 10 + strengthAdj * 8 + matchupAdj * 5
  IN [ overall      |-> overallOf(rawWin),
       laneBase     |-> laneBase,
       strengthAdj  |-> strengthAdj,
       matchupAdj   |-> matchupAdj,
       podium       |-> podiumOf(rawPodium),
       explanation  |-> explanationOf(lane, laneBase, strengthAdj, matchupAdj, hasOpponents),
       hasOpponents |-> hasOpponents ]

-----------------------------------------------------------------------------
(* Advice generator.  An item is its icon, the rule that produced it and   *)
(* the values its text is templated from.                                  *)

Item(kind, icon, text) == [kind |-> kind, icon |-> icon, text |-> text]

winProbAdvice(lane, distance, laneAdvData, winProb) ==
  IF Has(winProb, "overall")
  THEN LET wr     == winProb.overall
           podium == winProb.podium
       IN << Item("winProbability",
                  IF wr >= 40 THEN "trophy" ELSE IF wr >= 20 THEN "dice" ELSE "warning",
                  <<IF wr >= 40 THEN "clear edge"
                    ELSE IF wr >= 20 THEN "competitive field"
                    ELSE "tough opponents", wr, podium>>) >>
          \o (IF winProb.strengthAdj = NaN THEN <<>>
              ELSE IF winProb.strengthAdj > 15
              THEN << Item("strengthGap", "muscle", <<"skill advantage", winProb.strengthAdj>>) >>
              ELSE IF winProb.strengthAdj < -15
              THEN << Item("strengthGap", "brain", <<"stronger opponents", winProb.strengthAdj>>) >>
              ELSE <<>>)
  ELSE IF Has(laneAdvData, "win_rate")
  THEN << Item("laneWinRate", "pin", <<lane, RoundDiv(laneAdvData.win_rate, 10), distance>>) >>
  ELSE <<>>

topThreatAdvice(opponents) ==
  IF Len(opponents) > 0 /\ opponents[1].threat_score >= 50
  THEN << Item("topThreat", "target", <<opponents[1].name, opponents[1].threat_score>>) >>
  ELSE <<>>

\* Object.entries(timing).sort((a, b) => b[1].count - a[1].count)[0]:
\* the first entry, in key order, with the largest count
bestTiming(timing) ==
  LET best == CHOOSE i \in 1..Len(timing) :
                /\ \A j \in 1..Len(timing) : timing[j].count <= timing[i].count
                /\ \A j \in 1..(i - 1) : timing[j].count < timing[i].count
  IN timing[best]

timingAdvice(distance, timing) ==
  IF Len(timing) > 0
  THEN << Item("overtakeTiming", "stopwatch",
               <<distance, bestTiming(timing).stage, bestTiming(timing).pct>>) >>
  ELSE <<>>

hotspotAdvice(hotspots) ==
  IF Len(hotspots) > 0
  THEN << Item("hotspots", "fire", [i \in 1..Len(hotspots) |-> hotspots[i].lap]) >>
  ELSE <<>>

\* Math.max(2, Math.ceil(totalLaps * 0.2))
finalAttackLaps(totalLaps) == Max(2, (totalLaps * 2 + 9) \div 10)

styleAdvice(style, totalLaps) ==
  CASE style = "late_mover"   -> << Item("style", "snake", <<"late_mover", finalAttackLaps(totalLaps)>>) >>
    [] style = "front_runner" -> << Item("style", "rocket", <<"front_runner", 0>>) >>
    [] style = "mid_surge"    -> << Item("style", "collision", <<"mid_surge", 0>>) >>
    [] style = "balanced"     -> << Item("style", "scales", <<"balanced", 0>>) >>
    [] style = "no_passes"    -> << Item("style", "shield", <<"no_passes", 0>>) >>
    [] OTHER                  -> <<>>

namesOf(s) == [i \in 1..Len(s) |-> s[i].name]

isDisadvantage(m) == m.disadvantage

matchupAdvice(matchups) ==
  LET badMatchups == SelectSeq(matchups, isDisadvantage)
  IN IF Len(badMatchups) > 0
     THEN << Item("matchupDisadvantage", "swords",
                  [i \in 1..Len(badMatchups) |-> badMatchups[i].opponent]) >>
     ELSE <<>>


\* isPenaltyDanger with the threshold itself counted as a danger
isPenaltyDanger_inclusive(o) == o.penalty_rate >= 150

\* o.penalty_rate > 0.15
isPenaltyDanger(o) == o.penalty_rate > 150

\* o.crash_rate > 0.1
isCrashDanger(o) == o.crash_rate > 100

penaltyAdvice(opponents) ==
  LET penaltyDangers == SelectSeq(opponents, isPenaltyDanger)
  IN IF Len(penaltyDangers) > 0
     THEN << Item("penalty", "yellow", namesOf(penaltyDangers)) >>
     ELSE <<>>

crashAdvice(opponents) ==
  LET crashDangers == SelectSeq(opponents, isCrashDanger)
  IN IF Len(crashDangers) > 0
     THEN << Item("crash", "collision", namesOf(crashDangers)) >>
     ELSE <<>>

paceAdvice(pace) ==
  LET paceDesc == IF pace.early >= 38 THEN "front-loaded aggressive start"
                  ELSE IF pace.late >= 38 THEN "back-loaded finish sprint"
                  ELSE "even distribution"
  IN << Item("paceSummary", "racecar", <<paceDesc, pace.early, pace.middle, pace.late>>) >>


\* generateAdvice with the crash warning pushed before the penalty warning
generateAdvice_crashFirst(style, distance, lane, laneAdvData, opponents, pace, timing, hotspots, matchups, winProb) ==
  winProbAdvice(lane, distance, laneAdvData, winProb)
  \o topThreatAdvice(opponents)
  \o timingAdvice(distance, timing)
  \o hotspotAdvice(hotspots)
  \o styleAdvice(style, TOTAL_LAPS(distance))
  \o matchupAdvice(matchups)
  \o crashAdvice(opponents)
  \o penaltyAdvice(opponents)
  \o paceAdvice(pace)

generateAdvice(style, distance, lane, laneAdvData, opponents, pace, timing, hotspots, matchups, winProb) ==
  winProbAdvice(lane, distance, laneAdvData, winProb)
  \o topThreatAdvice(opponents)
  \o timingAdvice(distance, timing)
  \o hotspotAdvice(hotspots)
  \o styleAdvice(style, TOTAL_LAPS(distance))
  \o matchupAdvice(matchups)
  \o penaltyAdvice(opponents)
  \o crashAdvice(opponents)
  \o paceAdvice(pace)

-----------------------------------------------------------------------------
(* Lap plan builder.  pct = lap / totalLaps is compared as a fraction.     *)


\* lapPhase with the boundaries at exact thirds instead of 0.33 and 0.67
lapPhase_thirds(lap, totalLaps) ==
  IF lap * 3 <= totalLaps THEN "Early"
  ELSE IF lap * 3 <= 2 * totalLaps THEN "Mid"
  ELSE "Late"

lapPhase(lap, totalLaps) ==
  IF lap * 100 <= 33 * totalLaps THEN "Early"
  ELSE IF lap * 100 <= 67 * totalLaps THEN "Mid"
  ELSE "Late"


\* lapAction with pct >= 0.6 for the late_mover attack
lapAction_lateMoverInclusive(lap, totalLaps, isHotspot, pace, style) ==
  IF lap = 1 THEN <<"Position", "hold">>
  ELSE IF lap = totalLaps THEN <<"Sprint!", "push">>
  ELSE IF lap = totalLaps - 1
  THEN <<IF style = "late_mover" THEN "Attack!" ELSE "Push", "push">>
  ELSE IF isHotspot
  THEN IF style = "front_runner" /\ lap * 2 <= totalLaps THEN <<"Attack", "overtake">>
       ELSE IF style = "late_mover" /\ lap * 10 >= 6 * totalLaps THEN <<"Attack", "overtake">>
       ELSE IF style = "mid_surge" /\ lap * 10 > 3 * totalLaps /\ lap * 10 < 7 * totalLaps
       THEN <<"Surge", "overtake">>
       ELSE <<"Ready", "overtake">>
  ELSE IF lap * 100 <= 33 * totalLaps
  THEN IF pace.early >= 35 THEN <<"Push", "hold">> ELSE <<"Conserve", "conserve">>
  ELSE IF lap * 100 <= 67 * totalLaps THEN <<"Hold", "hold">>
  ELSE IF pace.late >= 35 THEN <<"Push", "push">> ELSE <<"Hold", "hold">>

\* lapAction with the hotspot branch tested before the first and last laps
lapAction_hotspotFirst(lap, totalLaps, isHotspot, pace, style) ==
  IF isHotspot THEN <<"Ready", "overtake">>
  ELSE IF lap = 1 THEN <<"Position", "hold">>
  ELSE IF lap = totalLaps THEN <<"Sprint!", "push">>
  ELSE IF lap = totalLaps - 1
  THEN <<IF style = "late_mover" THEN "Attack!" ELSE "Push", "push">>
  ELSE IF lap * 100 <= 33 * totalLaps
  THEN IF pace.early >= 35 THEN <<"Push", "hold">> ELSE <<"Conserve", "conserve">>
  ELSE IF lap * 100 <= 67 * totalLaps THEN <<"Hold", "hold">>
  ELSE IF pace.late >= 35 THEN <<"Push", "push">> ELSE <<"Hold", "hold">>

lapAction(lap, totalLaps, isHotspot, pace, style) ==
  IF lap = 1 THEN <<"Position", "hold">>
  ELSE IF lap = totalLaps THEN <<"Sprint!", "push">>
  ELSE IF lap = totalLaps - 1
  THEN <<IF style = "late_mover" THEN "Attack!" ELSE "Push", "push">>
  ELSE IF isHotspot
  THEN IF style = "front_runner" /\ lap * 2 <= totalLaps THEN <<"Attack", "overtake">>
       ELSE IF style = "late_mover" /\ lap * 10 > 6 * totalLaps THEN <<"Attack", "overtake">>
       ELSE IF style = "mid_surge" /\ lap * 10 > 3 * totalLaps /\ lap * 10 < 7 * totalLaps
       THEN <<"Surge", "overtake">>
       ELSE <<"Ready", "overtake">>
  ELSE IF lap * 100 <= 33 * totalLaps
  THEN IF pace.early >= 35 THEN <<"Push", "hold">> ELSE <<"Conserve", "conserve">>
  ELSE IF lap * 100 <= 67 * totalLaps THEN <<"Hold", "hold">>
  ELSE IF pace.late >= 35 THEN <<"Push", "push">> ELSE <<"Hold", "hold">>

lapPlanItem(lap, totalLaps, hotspotLapNums, pace, style) ==
  LET isHotspot == lap \in hotspotLapNums
      act       == lapAction(lap, totalLaps, isHotspot, pace, style)
  IN [ lap         |-> lap,
       phase       |-> lapPhase(lap, totalLaps),
       hotspot     |-> isHotspot,
       action      |-> act[1],
       actionClass |-> act[2] ]

\* for (let lap = 1; lap <= totalLaps; lap++) plan.push(...)
buildLapPlan(totalLaps, hotspotLapNums, pace, style) ==
  [lap \in 1..totalLaps |-> lapPlanItem(lap, totalLaps, hotspotLapNums, pace, style)]

buildLapOvertakeData(distance, strategyData, hotspotLapNums, totalLaps) ==
  LET lapDetails == IF Has(strategyData, "lap_details")
                       /\ Has(strategyData.lap_details, distance)
                    THEN strategyData.lap_details[distance] ELSE Null
  IN [i \in 1..totalLaps |->
        [ lap       |-> i,
          overtakes |-> IF Has(lapDetails, i) THEN lapDetails[i].overtakes ELSE 0,
          isHotspot |-> i \in hotspotLapNums ]]

-----------------------------------------------------------------------------
(* Strategy orchestrator.                                                  *)

\* obj?.[key] ?? Null
Get(obj, key) == IF Has(obj, key) THEN obj[key] ELSE Null

IsNull(obj) == DOMAIN obj = {}

generateStrategy(mySkater, distance, lane, opponents, models) ==
  LET strategyData   == Get(models, "strategy")
      totalLaps      == TOTAL_LAPS(distance)
      style          == styleOr(mySkater.stats.style)
      laneAdvData    == Get(Get(Get(strategyData, "lane_advantage"), distance), lane)
      hotspots       == Get(Get(strategyData, "hotspot_laps"), distance)
      hotspotLapNums == { hotspots[i].lap : i \in 1..Len(hotspots) }
      timing         == Get(Get(strategyData, "overtake_timing"), distance)
      styleMatchups  == Get(strategyData, "style_matchups")
      sortedOpponents == arraysAfterSort(opponents)[sortTarget]
      pace           == computePace(style, distance, lane, sortedOpponents)
      matchupInsights == buildMatchupInsights(style, sortedOpponents, styleMatchups)
      laneWinRate    == IF IsNull(laneAdvData) THEN Null
                        ELSE <<RoundDiv(laneAdvData.win_rate, 10)>>
      winProbability == computeWinProbability(mySkater, lane, distance,
                          sortedOpponents, matchupInsights, laneAdvData)
      advice         == generateAdvice(style, distance, lane, laneAdvData,
                          sortedOpponents, pace, timing, hotspots,
                          matchupInsights, winProbability)
      lapPlan        == buildLapPlan(totalLaps, hotspotLapNums, pace, style)
      lapOvertakeData == IF IsNull(strategyData) THEN <<>>
                         ELSE buildLapOvertakeData(distance, strategyData,
                                                   hotspotLapNums, totalLaps)
  IN [ mySkaterName    |-> mySkater.name,
       distance        |-> distance,
       lane            |-> lane,
       totalLaps       |-> totalLaps,
       style           |-> style,
       pace            |-> pace,
       advice          |-> advice,
       lapPlan         |-> lapPlan,
       opponentThreats |-> sortedOpponents,
       matchupInsights |-> matchupInsights,
       laneWinRate     |-> laneWinRate,
       winProbability  |-> winProbability,
       lapOvertakeData |-> lapOvertakeData ]

-----------------------------------------------------------------------------
(* Pace bar.  The lap ranges printed under the bar of the three shares.    *)

\* Math.ceil(totalLaps * 0.33)
earlyEnd(totalLaps) == (33 * totalLaps + 99) \div 100

\* Math.ceil(totalLaps * 0.67)
midEnd(totalLaps) == (67 * totalLaps + 99) \div 100

\* "Laps 1-earlyEnd", "Laps earlyEnd+1-midEnd", "Laps midEnd+1-totalLaps"
paceBarPhase(lap, totalLaps) ==
  IF lap <= earlyEnd(totalLaps) THEN "Early"
  ELSE IF lap <= midEnd(totalLaps) THEN "Mid"
  ELSE "Late"

-----------------------------------------------------------------------------
(* Custom skater builder.  input.pass_rate and input.passed_rate are the   *)
(* slider values (passes per race), input.threat the threat slider.        *)


\* passSplit with the front_runner and late_mover shares exchanged
passSplit_mirrored(style, passesMade) ==
  CASE style = "late_mover" ->
         LET early  == RoundDiv(passesMade * 5, 10)
             middle == RoundDiv(passesMade * 3, 10)
         IN [early |-> early, middle |-> middle, late |-> passesMade - early - middle]
    [] style = "front_runner" ->
         LET late   == RoundDiv(passesMade * 5, 10)
             middle == RoundDiv(passesMade * 3, 10)
         IN [early |-> passesMade - late - middle, middle |-> middle, late |-> late]
    [] style = "mid_surge" ->
         LET middle == RoundDiv(passesMade * 5, 10)
             early  == RoundDiv(passesMade * 25, 100)
         IN [early |-> early, middle |-> middle, late |-> passesMade - middle - early]
    [] OTHER ->
         LET early  == RoundDiv(passesMade * 33, 100)
             middle == RoundDiv(passesMade * 34, 100)
         IN [early |-> early, middle |-> middle, late |-> passesMade - early - middle]

\* the split of passesMade over the race by style: Math.round of a fixed
\* share for two parts, the remainder for the third
passSplit(style, passesMade) ==
  CASE style = "front_runner" ->
         LET early  == RoundDiv(passesMade * 5, 10)
             middle == RoundDiv(passesMade * 3, 10)
         IN [early |-> early, middle |-> middle, late |-> passesMade - early - middle]
    [] style = "late_mover" ->
         LET late   == RoundDiv(passesMade * 5, 10)
             middle == RoundDiv(passesMade * 3, 10)
         IN [early |-> passesMade - late - middle, middle |-> middle, late |-> late]
    [] style = "mid_surge" ->
         LET middle == RoundDiv(passesMade * 5, 10)
             early  == RoundDiv(passesMade * 25, 100)
         IN [early |-> early, middle |-> middle, late |-> passesMade - middle - early]
    [] OTHER ->
         LET early  == RoundDiv(passesMade * 33, 100)
             middle == RoundDiv(passesMade * 34, 100)
         IN [early |-> early, middle |-> middle, late |-> passesMade - early - middle]

\* buildCustomSkater taking the slider value itself as the number of passes
buildCustomSkater_rateAsTotal(input) ==
  LET totalRaces  == 10
      passesMade  == input.pass_rate
      timesPassed == input.passed_rate
      netPasses   == passesMade - timesPassed
      split       == passSplit(input.style, passesMade)
  IN [ name  |-> input.name,
       stats |-> [ total_races         |-> totalRaces,
                   total_passes_made   |-> passesMade,
                   total_times_passed  |-> timesPassed,
                   net_passes          |-> netPasses,
                   avg_passes_per_race |-> input.pass_rate * 1000,
                   passes_early        |-> split.early,
                   passes_middle       |-> split.middle,
                   passes_late         |-> split.late,
                   style               |-> input.style,
                   threat_score        |-> input.threat * 10,
                   medals              |-> [gold |-> 0, silver |-> 0, bronze |-> 0],
                   penalties           |-> 0,
                   penalty_rate        |-> 0,
                   crashes_inferred    |-> 0,
                   crash_rate          |-> 0 ] ]

\* the stats are in the units of the roster: threat_score in tenths,
\* avg_passes_per_race in thousandths
buildCustomSkater(input) ==
  LET totalRaces  == 10
      passesMade  == input.pass_rate * totalRaces
      timesPassed == input.passed_rate * totalRaces
      netPasses   == passesMade - timesPassed
      split       == passSplit(input.style, passesMade)
  IN [ name  |-> input.name,
       stats |-> [ total_races         |-> totalRaces,
                   total_passes_made   |-> passesMade,
                   total_times_passed  |-> timesPassed,
                   net_passes          |-> netPasses,
                   avg_passes_per_race |-> input.pass_rate * 1000,
                   passes_early        |-> split.early,
                   passes_middle       |-> split.middle,
                   passes_late         |-> split.late,
                   style               |-> input.style,
                   threat_score        |-> input.threat * 10,
                   medals              |-> [gold |-> 0, silver |-> 0, bronze |-> 0],
                   penalties           |-> 0,
                   penalty_rate        |-> 0,
                   crashes_inferred    |-> 0,
                   crash_rate          |-> 0 ] ]

(* Inputs: a roster, the aggregate tables and the race parameters.         *)

Skater(name, style, threat, net, avg, races, gold, silver, bronze, penalties, crashes, penaltyRate, crashRate) ==
  [ name  |-> name,
    stats |-> [ style               |-> style,
                threat_score        |-> threat,
                net_passes          |-> net,
                avg_passes_per_race |-> avg,
                total_races         |-> races,
                medals              |-> [gold |-> gold, silver |-> silver, bronze |-> bronze],
                penalties           |-> penalties,
                crashes_inferred    |-> crashes,
                penalty_rate        |-> penaltyRate,
                crash_rate          |-> crashRate ] ]

Ahn    == Skater("Ahn",    "late_mover",   876,  45, 2345, 30, 3, 1, 0, 6, 1, 200,  33)
Boutin == Skater("Boutin", "front_runner", 596,  12, 1200, 20, 0, 1, 2, 2, 3, 100, 150)
Choi   == Skater("Choi",   "mid_surge",    300,  -6,  500, 12, 0, 0, 0, 0, 0,   0,   0)
Dion   == Skater("Dion",   "balanced",     124, -20,  150, 10, 0, 0, 0, 1, 1, 151, 101)
Eto    == Skater("Eto",    "",               0,   0,    0,  0, 0, 0, 0, 0, 0,   0,   0)
Fan    == Skater("Fan",    "no_passes",    600,   0,    0, 15, 0, 0, 1, 0, 0, 150, 100)
Gim    == Skater("Gim",    "developing",   450,   3,  800,  8, 0, 0, 0, 0, 0,   0,   0)


\* profiles from a data set without some of the stats: Hong has none of
\* them, Ito lacks net_passes and the discipline fields, Jang only the
\* discipline fields
Hong == Skater("Hong", "",             NaN, NaN,  NaN, NaN, NaN, NaN, NaN, NaN, NaN, NaN, NaN)
Ito  == Skater("Ito",  "front_runner", 700, NaN, 1500,  20,   1,   0,   0, NaN, NaN, NaN, NaN)
Jang == Skater("Jang", "late_mover",   550,  10, 1000,  12,   0,   0,   1, NaN, NaN, NaN, NaN)

PartialSkaters == { Hong, Ito, Jang }

\* the skaters that can be picked as "my skater"
MySkaters == { Ahn, Boutin, Choi, Eto, Gim }

\* the skaters that can be picked as opponents, each at most once per heat
OpponentPool == { Ahn, Boutin, Choi, Dion, Fan }

\* more opponents in one heat than this are not explored
MaxOpp == 4

RECURSIVE AllSeqsUpTo(_, _)
\* the sequences over S of length at most n
AllSeqsUpTo(S, n) ==
  IF n = 0 THEN { <<>> }
  ELSE AllSeqsUpTo(S, n - 1)
       \cup { Append(q, x) : q \in { r \in AllSeqsUpTo(S, n - 1) : Len(r) = n - 1 },
                             x \in S }

Distinct(q) == \A i, j \in 1..Len(q) : i # j => q[i] # q[j]

OpponentLists(n) ==
  { [i \in 1..Len(q) |-> buildOpponentThreat(q[i])] :
      q \in { r \in AllSeqsUpTo(OpponentPool, n) : Distinct(r) } }

\* the distance strings of the setup form, and one the lap table does not know
Distances == { "500", "1000", "1500", "3000" }

Lanes == { 1, 3, 4 }

StrategyData ==
  [ lane_advantage |->
      [ d \in { "500", "1000", "1500" } |->
          CASE d = "500"  -> (1 :> [win_rate |-> 342, total |-> 120, top2_rate |-> 587]
                              @@ 4 :> [win_rate |-> 124, total |-> 80])
            [] d = "1000" -> (1 :> [win_rate |-> 987, total |-> 64, top2_rate |-> 1000]
                              @@ 4 :> [win_rate |-> 203, total |-> 51, top2_rate |-> 96])
            [] d = "1500" -> (1 :> [win_rate |-> 0, total |-> 3, top2_rate |-> 12]) ],
    hotspot_laps |->
      [ d \in { "500", "1000" } |->
          CASE d = "500"  -> << [lap |-> 1, overtakes |-> 9], [lap |-> 3, overtakes |-> 14],
                                [lap |-> 5, overtakes |-> 7] >>
            [] d = "1000" -> << [lap |-> 4, overtakes |-> 21], [lap |-> 6, overtakes |-> 30],
                                [lap |-> 8, overtakes |-> 18] >> ],
    overtake_timing |->
      [ d \in { "500", "1500" } |->
          CASE d = "500"  -> << [stage |-> "early", count |-> 40, pct |-> 50],
                                [stage |-> "middle", count |-> 25, pct |-> 31],
                                [stage |-> "late", count |-> 15, pct |-> 19] >>
            [] d = "1500" -> << [stage |-> "early", count |-> 10, pct |-> 20],
                                [stage |-> "middle", count |-> 20, pct |-> 40],
                                [stage |-> "late", count |-> 20, pct |-> 40] >> ],
    lap_details |->
      [ d \in { "500" } |-> [ l \in 1..4 |-> [overtakes |-> 3 * l] ] ],
    style_matchups |->
      [ s \in { "late_mover", "front_runner", "balanced" } |->
          CASE s = "late_mover" ->
                 [ o \in { "late_mover", "front_runner", "mid_surge", "no_passes" } |->
                     CASE o = "late_mover"   -> [win_rate |-> 500, total |-> 30]
                       [] o = "front_runner" -> [win_rate |-> 620, total |-> 40]
                       [] o = "mid_surge"    -> [win_rate |-> 380, total |-> 12]
                       [] o = "no_passes"    -> [win_rate |-> 700, total |-> 4] ]
            [] s = "front_runner" ->
                 [ o \in { "late_mover", "front_runner", "mid_surge", "balanced" } |->
                     CASE o = "late_mover"   -> [win_rate |-> 383, total |-> 40]
                       [] o = "front_runner" -> [win_rate |-> 500, total |-> 22]
                       [] o = "mid_surge"    -> [win_rate |-> 557, total |-> 9]
                       [] o = "balanced"     -> [win_rate |-> 449, total |-> 5] ]
            [] s = "balanced" ->
                 [ o \in { "late_mover", "balanced", "no_passes" } |->
                     CASE o = "late_mover" -> [win_rate |-> 0, total |-> 6]
                       [] o = "balanced"   -> [win_rate |-> 1000, total |-> 50]
                       [] o = "no_passes"  -> [win_rate |-> 931, total |-> 7] ] ] ]

\* the models as loaded, and the models that failed to load
ModelSet == { [strategy |-> StrategyData], Null }

-----------------------------------------------------------------------------
(* generateStrategy, called on one race setup.                             *)

Init ==
  /\ args \in [ mySkater  : MySkaters,
                distance  : Distances,
                lane      : Lanes,
                opponents : OpponentLists(MaxOpp),
                models    : ModelSet ]
  /\ ret = Null
  /\ pc = "call"

\* the competitor profile and the tables are only read; the opponents are
\* spread into a new array before they are sorted
CallGenerateStrategy ==
  /\ pc = "call"
  /\ ret' = generateStrategy(args.mySkater, args.distance, args.lane,
                             args.opponents, args.models)
  /\ pc' = "done"
  /\ args' = [args EXCEPT !.opponents = opponentsAfterCall(@)]

Next == CallGenerateStrategy

Spec == Init /\ [][Next]_vars

-----------------------------------------------------------------------------
(* computePace, called on its own.                                         *)

\* every style tag, and the absent one
PaceStyles == Styles \cup { "" }

PaceLanes == { 1, 2, 3, 4, 6 }

\* the calls of computePace that are explored
PaceInputs ==
  [ style     : PaceStyles,
    distance  : Distances,
    lane      : PaceLanes,
    opponents : OpponentLists(MaxOpp) ]

InitPace ==
  /\ args \in PaceInputs
  /\ ret = Null
  /\ pc = "call"

CallComputePace ==
  /\ pc = "call"
  /\ ret' = computePace(args.style, args.distance, args.lane, args.opponents)
  /\ pc' = "done"
  /\ UNCHANGED args

NextPace == CallComputePace

SpecPace == InitPace /\ [][NextPace]_vars

-----------------------------------------------------------------------------
(* computeWinProbability, called on its own.                               *)

Roster == { Ahn, Boutin, Choi, Dion, Eto, Fan }

\* longest opponent list and longest insight list handed to the call
MaxWinOpp == 2

MaxInsights == 3

InsightPool ==
  { matchupInsight("balanced", buildOpponentThreat(Ahn), m) :
      m \in { [win_rate |-> 1000, total |-> 9], [win_rate |-> 0, total |-> 9],
              [win_rate |-> 517, total |-> 9] } }

LaneAdvChoices ==
  << Null,
     [win_rate |-> 0, total |-> 10, top2_rate |-> 0],
     [win_rate |-> 1000, total |-> 10, top2_rate |-> 1000],
     [win_rate |-> 342, total |-> 10] >>

InitWin ==
  /\ \E i \in 1..Len(LaneAdvChoices) :
       args \in [ mySkater        : Roster,
                  lane            : { 1 },
                  distance        : { "500" },
                  opponents       : OpponentLists(MaxWinOpp),
                  matchupInsights : AllSeqsUpTo(InsightPool, MaxInsights),
                  laneAdvData     : { LaneAdvChoices[i] } ]
  /\ ret = Null
  /\ pc = "call"

CallComputeWinProbability ==
  /\ pc = "call"
  /\ ret' = computeWinProbability(args.mySkater, args.lane, args.distance,
                                  args.opponents, args.matchupInsights,
                                  args.laneAdvData)
  /\ pc' = "done"
  /\ UNCHANGED args

NextWin == CallComputeWinProbability

SpecWin == InitWin /\ [][NextWin]_vars

-----------------------------------------------------------------------------
(* computeThreatLevel, called on its own.                                  *)

\* threat scores run from 0 to 100
MaxThreat == 100

InitLevel ==
  /\ args \in [ threatScore : 0..(MaxThreat * 10) ]
  /\ ret = Null
  /\ pc = "call"

CallComputeThreatLevel ==
  /\ pc = "call"
  /\ ret' = computeThreatLevel(args.threatScore)
  /\ pc' = "done"
  /\ UNCHANGED args

NextLevel == CallComputeThreatLevel

SpecLevel == InitLevel /\ [][NextLevel]_vars

-----------------------------------------------------------------------------
(* buildCustomSkater, called on the values of the custom skater form.      *)

\* the largest value of the two pass sliders
MaxRate == 10

InitCustom ==
  /\ args \in [ name        : { "Custom" },
                style       : Styles,
                pass_rate   : 0..MaxRate,
                passed_rate : 0..MaxRate,
                threat      : 0..MaxThreat ]
  /\ ret = Null
  /\ pc = "call"

CallBuildCustomSkater ==
  /\ pc = "call"
  /\ ret' = buildCustomSkater(args)
  /\ pc' = "done"
  /\ UNCHANGED args

NextCustom == CallBuildCustomSkater

SpecCustom == InitCustom /\ [][NextCustom]_vars

-----------------------------------------------------------------------------
(* generateStrategy, called on profiles that lack some of the stats.       *)

\* more opponents with partial profiles than this are not explored
MaxPartialOpp == 2

PartialOpponentLists(n) ==
  { [i \in 1..Len(q) |-> buildOpponentThreat(q[i])] :
      q \in { r \in AllSeqsUpTo(PartialSkaters \cup { Boutin }, n) : Distinct(r) } }

InitPartial ==
  /\ args \in [ mySkater  : PartialSkaters \cup { Ahn },
                distance  : Distances,
                lane      : Lanes,
                opponents : PartialOpponentLists(MaxPartialOpp),
                models    : ModelSet ]
  /\ ret = Null
  /\ pc = "call"

SpecPartial == InitPartial /\ [][Next]_vars

-----------------------------------------------------------------------------
(* Data loader (hooks/useData.ts) and the application shell that renders   *)
(* on it.  In these specifications args is the state of the ten fetches,   *)
(* ret the AppData that useData returns, and pc the position of loadData,  *)
(* the state of its Promise.all and the number of strategies generated.    *)

\* the files whose fetch has no .catch
RequiredFiles == { "manifest", "skaters", "events" }

\* the files whose fetch has a .catch
OptionalFiles ==
  { "heats", "passes", "models", "incidents", "crashes", "medals", "timeTrends" }

DataFiles == RequiredFiles \cup OptionalFiles

\* what the .catch of an optional fetch returns
catchDefault(file) == IF file \in { "models", "timeTrends" } THEN "null" ELSE "[]"

initialState ==
  [ manifest   |-> "null",
    skaters    |-> "[]",
    events     |-> "[]",
    heats      |-> "[]",
    passes     |-> "[]",
    models     |-> "null",
    incidents  |-> "[]",
    crashes    |-> "[]",
    medals     |-> "[]",
    timeTrends |-> "null",
    loading    |-> TRUE,
    error      |-> Null ]

\* the value Promise.all yields for one file: the parsed file, or what its
\* .catch returns
settledValue(fetches, file) ==
  IF fetches[file] = "ok" THEN "loaded" ELSE catchDefault(file)

\* setData({ manifest, ..., timeTrends, loading: false, error: null })
loadedState(fetches) ==
  [ manifest   |-> settledValue(fetches, "manifest"),
    skaters    |-> settledValue(fetches, "skaters"),
    events     |-> settledValue(fetches, "events"),
    heats      |-> settledValue(fetches, "heats"),
    passes     |-> settledValue(fetches, "passes"),
    models     |-> settledValue(fetches, "models"),
    incidents  |-> settledValue(fetches, "incidents"),
    crashes    |-> settledValue(fetches, "crashes"),
    medals     |-> settledValue(fetches, "medals"),
    timeTrends |-> settledValue(fetches, "timeTrends"),
    loading    |-> FALSE,
    error      |-> Null ]

\* setData(prev => ({ ...prev, loading: false, error: err.message }))
failedState(prev, file) ==
  [prev EXCEPT !.loading = FALSE, !.error = <<"Failed to load", file>>]

\* App with no failure screen
App_noFailureScreen(data) ==
  IF data.loading THEN "loading screen" ELSE "routes"

\* what App renders: the routes, RacePrep among them, only after both
\* early returns
App(data) ==
  IF data.loading THEN "loading screen"
  ELSE IF data.error # Null THEN "failure screen"
  ELSE "routes"

\* more strategies generated in one session than this are not explored
MaxCalls == 2

InitLoader ==
  /\ args = [f \in DataFiles |-> "idle"]
  /\ ret = initialState
  /\ pc = [loadData |-> "start", promise |-> "pending", reason |-> "", calls |-> 0]

\* useEffect runs loadData up to its await: the state is set to loading and
\* the ten fetches are sent
Mount ==
  /\ pc.loadData = "start"
  /\ ret' = [ret EXCEPT !.loading = TRUE, !.error = Null]
  /\ args' = [f \in DataFiles |-> "pending"]
  /\ pc' = [pc EXCEPT !.loadData = "awaiting"]

\* one fetch settles; Promise.all rejects with the first failure of a fetch
\* without .catch and is fulfilled when all ten have a value
SettleFetch(file, outcome) ==
  /\ args[file] = "pending"
  /\ args' = [args EXCEPT ![file] = outcome]
  /\ pc' = IF pc.promise # "pending" THEN pc
           ELSE IF outcome = "failed" /\ file \in RequiredFiles
           THEN [pc EXCEPT !.promise = "rejected", !.reason = file]
           ELSE IF \A f \in DataFiles : args'[f] # "pending"
           THEN [pc EXCEPT !.promise = "fulfilled"]
           ELSE pc
  /\ UNCHANGED ret

\* loadData resumes in its try block
AwaitFulfilled ==
  /\ pc.loadData = "awaiting"
  /\ pc.promise = "fulfilled"
  /\ ret' = loadedState(args)
  /\ pc' = [pc EXCEPT !.loadData = "returned"]
  /\ UNCHANGED args

\* loadData resumes in its catch block
AwaitRejected ==
  /\ pc.loadData = "awaiting"
  /\ pc.promise = "rejected"
  /\ ret' = failedState(ret, pc.reason)
  /\ pc' = [pc EXCEPT !.loadData = "returned"]
  /\ UNCHANGED args

\* the Generate button of RacePrep, which exists only when App renders the
\* routes, calls generateStrategy with data.models
HandleGenerate ==
  /\ App(ret) = "routes"
  /\ pc.calls < MaxCalls
  /\ pc' = [pc EXCEPT !.calls = @ + 1]
  /\ UNCHANGED <<args, ret>>

NextLoader ==
  \/ Mount
  \/ \E file \in DataFiles, outcome \in { "ok", "failed" } : SettleFetch(file, outcome)
  \/ AwaitFulfilled
  \/ AwaitRejected
  \/ HandleGenerate

SpecLoader == InitLoader /\ [][NextLoader]_vars

\* the effect runs after the first render and a settled promise resumes
\* its awaiting function; a fetch itself may stay pending for ever
SpecLoaderFair ==
  /\ SpecLoader
  /\ WF_vars(Mount)
  /\ WF_vars(AwaitFulfilled)
  /\ WF_vars(AwaitRejected)

-----------------------------------------------------------------------------
(* buildLapPlan, called on its own.                                        *)

\* more hotspot laps in one plan than this are not explored
MaxHotspots == 2

\* the lap counts of the three distances
LapCounts == { TOTAL_LAPS(d) : d \in { "500", "1000", "1500" } }

\* pace triples that computePace returns, on both sides of the limit 35
PlanPaces ==
  { [early |-> 40, middle |-> 35, late |-> 25],
    [early |-> 25, middle |-> 35, late |-> 40],
    [early |-> 35, middle |-> 30, late |-> 35],
    [early |-> 33, middle |-> 34, late |-> 33] }

InitPlan ==
  /\ args \in { a \in [ totalLaps      : LapCounts,
                        hotspotLapNums : SUBSET (1..14),
                        pace           : PlanPaces,
                        style          : Styles ] :
                  /\ a.hotspotLapNums \subseteq 1..a.totalLaps
                  /\ Cardinality(a.hotspotLapNums) <= MaxHotspots }
  /\ ret = Null
  /\ pc = "call"

CallBuildLapPlan ==
  /\ pc = "call"
  /\ ret' = buildLapPlan(args.totalLaps, args.hotspotLapNums, args.pace, args.style)
  /\ pc' = "done"
  /\ UNCHANGED args

NextPlan == CallBuildLapPlan

SpecPlan == InitPlan /\ [][NextPlan]_vars

-----------------------------------------------------------------------------
(* buildOpponentThreat, called on a profile picked in the search box.      *)

\* profiles with every threat score 0.0, 0.1, ..., 100.0
InitThreat ==
  /\ args \in { Skater("Kwon", st, t, 5, 1000, 10, 0, 0, 0, 0, 0, 0, 0) :
                  st \in { "balanced", "" }, t \in 0..(MaxThreat * 10) }
  /\ ret = Null
  /\ pc = "call"

CallBuildOpponentThreat ==
  /\ pc = "call"
  /\ ret' = buildOpponentThreat(args)
  /\ pc' = "done"
  /\ UNCHANGED args

NextThreat == CallBuildOpponentThreat

SpecThreat == InitThreat /\ [][NextThreat]_vars

-----------------------------------------------------------------------------
(* generateStrategy, called on a heat whose opponents share threat scores. *)

\* four profiles whose threat scores all round to 60, of four styles
Kim  == Skater("Kim",  "front_runner", 600,  5, 1000, 10, 0, 0, 0, 0, 0, 0, 0)
Lee  == Skater("Lee",  "mid_surge",    602,  5, 1000, 10, 0, 0, 0, 0, 0, 0, 0)
Moon == Skater("Moon", "late_mover",   598,  5, 1000, 10, 0, 0, 0, 0, 0, 0, 0)
Noh  == Skater("Noh",  "balanced",     600,  5, 1000, 10, 0, 0, 0, 0, 0, 0, 0)

TiedPool == { Kim, Lee, Moon, Noh, Dion }

\* longest opponent list of such a heat
MaxTied == 4

TiedLists ==
  { [i \in 1..Len(q) |-> buildOpponentThreat(q[i])] :
      q \in { r \in AllSeqsUpTo(TiedPool, MaxTied) : Distinct(r) } }

InitTies ==
  /\ args \in [ mySkater  : { Ahn, Boutin },
                distance  : { "500" },
                lane      : { 1 },
                opponents : TiedLists,
                models    : { [strategy |-> StrategyData] } ]
  /\ ret = Null
  /\ pc = "call"

SpecTies == InitTies /\ [][Next]_vars

-----------------------------------------------------------------------------
(* generateStrategy, called on a heat of which one opponent's profile is   *)
(* then given a higher threat score.                                       *)

\* the amounts, in tenths, by which the score is raised
Raises == { 1, 10, 300 }

BuiltList(q) == [i \in 1..Len(q) |-> buildOpponentThreat(q[i])]

\* args.profiles are the picked profiles, args.who the one whose score is
\* raised and args.by the amount
InitRaise ==
  /\ \E q \in { r \in AllSeqsUpTo(TiedPool, MaxTied) : Distinct(r) /\ r # <<>> } :
       \E i \in 1..Len(q) :
         args \in [ mySkater  : { Ahn, Boutin },
                    distance  : { "500" },
                    lane      : { 1 },
                    opponents : { BuiltList(q) },
                    models    : { [strategy |-> StrategyData] },
                    profiles  : { q },
                    who       : { i },
                    by        : Raises ]
  /\ ret = Null
  /\ pc = "call"

SpecRaise == InitRaise /\ [][Next]_vars

-----------------------------------------------------------------------------
(* The race setup form.  ret is the state of the form's hooks, args what   *)
(* its last render captured and showed, pc.queue the state updates that    *)
(* were requested and not yet applied.                                     *)

\* if (opponents.length >= 7) return
OpponentLimit == 7

\* the profile picked in the search box and the one made by the custom form
SearchedOpponent == buildOpponentThreat(Dion)

CustomOpponent ==
  buildOpponentThreat(buildCustomSkater(
    [name |-> "Custom", style |-> "balanced", pass_rate |-> 2, passed_rate |-> 1,
     threat |-> 50]))

\* useState([]) and useState(false)
initialForm == [opponents |-> <<>>, showCustomOpponent |-> FALSE]

\* one render: the callbacks capture opponents.length, the JSX reads it and
\* showCustomOpponent
render(form) ==
  [length |-> Len(form.opponents), showCustomOpponent |-> form.showCustomOpponent]

\* {opponents.length < 7 && !showCustomOpponent && ...}: the search box and
\* the "Add custom opponent" button
searchShown(view) == view.length < OpponentLimit /\ ~view.showCustomOpponent

\* {showCustomOpponent && <CustomSkaterForm .../>}
customFormShown(view) == view.showCustomOpponent

\* prev => [...prev, threat], prev => prev.filter((_, i) => i !== idx) and
\* setShowCustomOpponent(value)
applyUpdate(form, u) ==
  CASE u.op = "append" -> [form EXCEPT !.opponents = Append(@, u.x)]
    [] u.op = "remove" ->
         [form EXCEPT !.opponents =
            [i \in 1..(Len(@) - (IF u.x <= Len(@) THEN 1 ELSE 0)) |->
               IF i < u.x THEN @[i] ELSE @[i + 1]]]
    [] u.op = "show"   -> [form EXCEPT !.showCustomOpponent = u.x]

RECURSIVE applyQueue(_, _)
applyQueue(form, queue) ==
  IF queue = <<>> THEN form
  ELSE applyQueue(applyUpdate(form, Head(queue)), Tail(queue))

\* events delivered while up to two requested updates still wait
eventReady_beforeFlush(queue) == Len(queue) <= 2

\* the updates of a mouse or keyboard event are applied, and the form is
\* rendered again, before the next event is delivered
eventReady(queue) == queue = <<>>

InitForm ==
  /\ ret = initialForm
  /\ args = render(initialForm)
  /\ pc = [queue |-> <<>>]

\* a skater is picked in the search box: handleAddOpponent
SelectOpponent ==
  /\ eventReady(pc.queue)
  /\ searchShown(args)
  /\ pc' = IF args.length >= OpponentLimit THEN pc
           ELSE [pc EXCEPT !.queue = Append(@, [op |-> "append", x |-> SearchedOpponent])]
  /\ UNCHANGED <<args, ret>>

\* the "Add custom opponent" button
OpenCustomOpponent ==
  /\ eventReady(pc.queue)
  /\ searchShown(args)
  /\ pc' = [pc EXCEPT !.queue = Append(@, [op |-> "show", x |-> TRUE])]
  /\ UNCHANGED <<args, ret>>

\* the custom form is submitted: handleCustomOpponent
SubmitCustomOpponent ==
  /\ eventReady(pc.queue)
  /\ customFormShown(args)
  /\ pc' = IF args.length >= OpponentLimit THEN pc
           ELSE [pc EXCEPT !.queue = @ \o << [op |-> "append", x |-> CustomOpponent],
                                             [op |-> "show", x |-> FALSE] >>]
  /\ UNCHANGED <<args, ret>>

\* the custom form is cancelled
CancelCustomOpponent ==
  /\ eventReady(pc.queue)
  /\ customFormShown(args)
  /\ pc' = [pc EXCEPT !.queue = Append(@, [op |-> "show", x |-> FALSE])]
  /\ UNCHANGED <<args, ret>>

\* the cross of the chip at idx: handleRemoveOpponent
RemoveOpponent(idx) ==
  /\ eventReady(pc.queue)
  /\ idx \in 1..args.length
  /\ pc' = [pc EXCEPT !.queue = Append(@, [op |-> "remove", x |-> idx])]
  /\ UNCHANGED <<args, ret>>

\* the requested updates are applied in order and the form is rendered
Flush ==
  /\ pc.queue # <<>>
  /\ ret' = applyQueue(ret, pc.queue)
  /\ args' = render(ret')
  /\ pc' = [pc EXCEPT !.queue = <<>>]

NextForm ==
  \/ SelectOpponent
  \/ OpenCustomOpponent
  \/ SubmitCustomOpponent
  \/ CancelCustomOpponent
  \/ \E idx \in 1..(OpponentLimit + 3) : RemoveOpponent(idx)
  \/ Flush

SpecForm == InitForm /\ [][NextForm]_vars

-----------------------------------------------------------------------------
(* Properties.                                                             *)

\* C1 (SpecPace): for every style, known or not, every distance, lane and
\* opponent list, the pace returned by computePace has
\* early + middle + late = 100.
C1_PaceSumsTo100 ==
  pc = "done" => ret.early + ret.middle + ret.late = 100

C1_Witness ==
  /\ pc = "done"
  /\ args.style = "unknown"
  /\ args.distance = "3000"
  /\ Len(args.opponents) = 3
  /\ ret.early + ret.middle + ret.late = 100

averageThreatAbove(opponents, limit) ==
  Len(opponents) > 0 /\ threatSum(opponents) > limit * Len(opponents)

averageThreatBelow(opponents, limit) ==
  Len(opponents) > 0 /\ threatSum(opponents) < limit * Len(opponents)

paceWithoutOpponents == computePace(args.style, args.distance, args.lane, <<>>)

\* C3 as stated (SpecPace): a mean opponent threat above 50 moves weight
\* later (late not lower, early not higher than with no opponents), a mean
\* below 25 moves it earlier (early not lower, late not higher).
C3_FieldShiftAsStated ==
  pc = "done" =>
    /\ averageThreatAbove(args.opponents, 50) =>
         /\ ret.late >= paceWithoutOpponents.late
         /\ ret.early <= paceWithoutOpponents.early
    /\ averageThreatBelow(args.opponents, 25) =>
         /\ ret.early >= paceWithoutOpponents.early
         /\ ret.late <= paceWithoutOpponents.late

\* C3 amended (SpecPace): a mean opponent threat above 50 moves weight
\* earlier (early not lower, late not higher than with no opponents), a mean
\* below 25 moves it later (late not lower, early not higher).
C3_FieldShift ==
  pc = "done" =>
    /\ averageThreatAbove(args.opponents, 50) =>
         /\ ret.early >= paceWithoutOpponents.early
         /\ ret.late <= paceWithoutOpponents.late
    /\ averageThreatBelow(args.opponents, 25) =>
         /\ ret.late >= paceWithoutOpponents.late
         /\ ret.early <= paceWithoutOpponents.early

C3_Witness ==
  /\ pc = "done"
  /\ averageThreatAbove(args.opponents, 50)
  /\ ret.early = paceWithoutOpponents.early + 2
  /\ ret.late = paceWithoutOpponents.late - 3

\* C4 (Spec): with no opponents the win probability has hasOpponents false,
\* strengthAdj 0 (the field is as strong as the competitor), matchupAdj 0,
\* overall equal to laneBase clamped to 1..99, and an explanation saying the
\* estimate is lane-only.
C4_NoOpponents ==
  (pc = "done" /\ args.opponents = <<>>) =>
    LET w == ret.winProbability
    IN /\ w.hasOpponents = FALSE
       /\ w.strengthAdj = 0
       /\ w.matchupAdj = 0
       /\ w.overall = Max(1, Min(99, w.laneBase))
       /\ w.explanation = << <<"Lane base only (no opponents selected)", args.lane>> >>

C4_Witness ==
  /\ pc = "done"
  /\ args.opponents = <<>>
  /\ myStrengthOf(args.mySkater) > 50000
  /\ ret.winProbability.laneBase = 0
  /\ ret.winProbability.strengthAdj = 0
  /\ ret.winProbability.overall = 1

\* C6 (SpecLevel): computeThreatLevel is high from 60 up, medium from 30 up
\* to under 60, low under 30; 59 is medium, 60 high, 29 low, 30 medium.
C6_ThreatLevelSteps ==
  pc = "done" =>
    /\ args.threatScore >= 600 => ret = "high"
    /\ (args.threatScore >= 300 /\ args.threatScore < 600) => ret = "medium"
    /\ args.threatScore < 300 => ret = "low"

C6_Witness ==
  /\ pc = "done"
  /\ args.threatScore = 600
  /\ ret = "high"

\* the style-vs-style table has a row for my style against this opponent's
\* style, with a sample of at least 5
hasUsableMatchup(models, myStyle, o) ==
  LET styleMatchups == Get(Get(models, "strategy"), "style_matchups")
  IN /\ Has(styleMatchups, myStyle)
     /\ Has(styleMatchups[myStyle], styleOr(o.style))
     /\ styleMatchups[myStyle][styleOr(o.style)].total >= 5

hasAnyMatchup(models, myStyle, o) ==
  LET styleMatchups == Get(Get(models, "strategy"), "style_matchups")
  IN /\ Has(styleMatchups, myStyle)
     /\ Has(styleMatchups[myStyle], styleOr(o.style))

\* C7 (Spec): at most 3 matchup insights; each is about one of the three
\* highest-threat opponents, and only about one whose pairing has a table
\* row with total >= 5; no opponent gets two, so a skipped opponent is not
\* replaced by the fourth-ranked one.
C7_MatchupInsightsTop3 ==
  pc = "done" =>
    LET ins    == ret.matchupInsights
        ranked == ret.opponentThreats
        n      == Len(ranked)
        top    == 1..Min(3, n)
    IN /\ Len(ins) <= 3
       /\ n = Len(args.opponents)
       /\ Range(ranked) = Range(args.opponents)
       /\ \A i \in top : \A j \in 1..n :
            j > 3 => ranked[i].threat_score >= ranked[j].threat_score
       /\ \A k \in 1..Len(ins) :
            \E i \in top :
              /\ ranked[i].name = ins[k].opponent
              /\ hasUsableMatchup(args.models, ret.style, ranked[i])
       /\ \A k, l \in 1..Len(ins) : ins[k].opponent = ins[l].opponent => k = l

C7_Witness ==
  /\ pc = "done"
  /\ Len(ret.opponentThreats) = 4
  /\ hasUsableMatchup(args.models, ret.style, ret.opponentThreats[4])
  /\ \E i \in 1..3 :
       /\ hasAnyMatchup(args.models, ret.style, ret.opponentThreats[i])
       /\ ~hasUsableMatchup(args.models, ret.style, ret.opponentThreats[i])
  /\ Len(ret.matchupInsights) = 2

\* C8 (SpecPace): every component of the pace returned by computePace is
\* >= 0, whatever the style, distance, lane and opponents.
C8_PaceNonNegative ==
  pc = "done" => ret.early >= 0 /\ ret.middle >= 0 /\ ret.late >= 0

C8_Witness ==
  /\ pc = "done"
  /\ args.style = "front_runner"
  /\ args.distance = "500"
  /\ args.lane >= 4
  /\ averageThreatAbove(args.opponents, 50)
  /\ ret.late = 14

frontRunner500Lane1 ==
  /\ args.distance = "500"
  /\ args.lane = 1
  /\ styleOr(args.mySkater.stats.style) = "front_runner"
  /\ args.opponents = <<>>

\* C10 as stated (Spec): in every lap plan lap 1 is "Position" (hold) and
\* the final lap is "Sprint" (push); distance "500", lane 1, front_runner,
\* no opponents gives 5 laps and a pace with early > late.
C10_FirstAndLastLapAsStated ==
  pc = "done" =>
    /\ ret.lapPlan[1].action = "Position"
    /\ ret.lapPlan[1].actionClass = "hold"
    /\ ret.lapPlan[ret.totalLaps].action = "Sprint"
    /\ ret.lapPlan[ret.totalLaps].actionClass = "push"
    /\ frontRunner500Lane1 =>
         /\ Len(ret.lapPlan) = 5
         /\ ret.pace.early > ret.pace.late

\* C10 amended (Spec): in every lap plan, hotspot on lap 1 or the final lap
\* or not, lap 1 is "Position" (hold) and the final lap is "Sprint!" (push);
\* distance "500", lane 1, front_runner, no opponents gives 5 laps and a
\* pace with early > late.
C10_FirstAndLastLap ==
  pc = "done" =>
    /\ ret.lapPlan[1].action = "Position"
    /\ ret.lapPlan[1].actionClass = "hold"
    /\ ret.lapPlan[ret.totalLaps].action = "Sprint!"
    /\ ret.lapPlan[ret.totalLaps].actionClass = "push"
    /\ frontRunner500Lane1 =>
         /\ Len(ret.lapPlan) = 5
         /\ ret.pace.early > ret.pace.late

C10_Witness ==
  /\ pc = "done"
  /\ frontRunner500Lane1
  /\ ret.lapPlan[1].hotspot
  /\ ret.lapPlan[5].hotspot
  /\ ret.lapPlan[1].action = "Position"
  /\ ret.lapPlan[5].action = "Sprint!"

\* C11 as stated (Spec): for every lap of every lap plan the phase label is
\* Early when lap/totalLaps <= 1/3, Mid when 1/3 < lap/totalLaps <= 2/3 and
\* Late when lap/totalLaps > 2/3.
C11_PhaseByThirdsAsStated ==
  pc = "done" =>
    \A lap \in DOMAIN ret.lapPlan :
      /\ 3 * lap <= ret.totalLaps => ret.lapPlan[lap].phase = "Early"
      /\ (3 * lap > ret.totalLaps /\ 3 * lap <= 2 * ret.totalLaps)
           => ret.lapPlan[lap].phase = "Mid"
      /\ 3 * lap > 2 * ret.totalLaps => ret.lapPlan[lap].phase = "Late"

\* C11 amended (Spec): for every lap of every lap plan the phase label is
\* Early when lap/totalLaps <= 0.33, Mid when 0.33 < lap/totalLaps <= 0.67
\* and Late when lap/totalLaps > 0.67; lap 3 of a 9-lap plan is Mid.
C11_PhaseByHundredths ==
  pc = "done" =>
    /\ \A lap \in DOMAIN ret.lapPlan :
         /\ 100 * lap <= 33 * ret.totalLaps => ret.lapPlan[lap].phase = "Early"
         /\ (100 * lap > 33 * ret.totalLaps /\ 100 * lap <= 67 * ret.totalLaps)
              => ret.lapPlan[lap].phase = "Mid"
         /\ 100 * lap > 67 * ret.totalLaps => ret.lapPlan[lap].phase = "Late"
    /\ ret.totalLaps = 9 => ret.lapPlan[3].phase = "Mid"

C11_Witness ==
  /\ pc = "done"
  /\ ret.totalLaps = 9
  /\ ret.lapPlan[2].phase = "Early"
  /\ ret.lapPlan[3].phase = "Mid"
  /\ ret.lapPlan[6].phase = "Mid"
  /\ ret.lapPlan[7].phase = "Late"

hasAdvice(kind) == \E i \in 1..Len(ret.advice) : ret.advice[i].kind = kind

\* C12 (Spec): the advice list has a penalty-risk item exactly when some
\* opponent has penalty_rate > 0.15 and a crash-risk item exactly when some
\* opponent has crash_rate > 0.10; a lone opponent with penalty_rate 0.2
\* produces the penalty item and a lone one with penalty_rate 0.1 does not.
C12_DisciplineWarnings ==
  pc = "done" =>
    /\ hasAdvice("penalty")
         <=> \E i \in 1..Len(args.opponents) : args.opponents[i].penalty_rate > 150
    /\ hasAdvice("crash")
         <=> \E i \in 1..Len(args.opponents) : args.opponents[i].crash_rate > 100
    /\ (Len(args.opponents) = 1 /\ args.opponents[1].penalty_rate = 200)
         => hasAdvice("penalty")
    /\ (Len(args.opponents) = 1 /\ args.opponents[1].penalty_rate = 100)
         => ~hasAdvice("penalty")

\* a heat whose only rates above the limits are a penalty rate of 0.2, next
\* to rates exactly at the limits 0.15 and 0.10
C12_Witness ==
  /\ pc = "done"
  /\ Len(args.opponents) = 2
  /\ args.opponents[1].penalty_rate = 150
  /\ args.opponents[1].crash_rate = 100
  /\ args.opponents[2].penalty_rate = 200
  /\ hasAdvice("penalty")
  /\ ~hasAdvice("crash")

AdviceOrder ==
  << "winProbability", "strengthGap", "topThreat", "overtakeTiming", "hotspots",
     "style", "matchupDisadvantage", "penalty", "crash", "paceSummary" >>

rankOf(kind) == CHOOSE r \in 1..Len(AdviceOrder) : AdviceOrder[r] = kind

tableFor(table) == Get(Get(Get(args.models, "strategy"), table), args.distance)

\* C13 (Spec): the advice items appear in the fixed order win-probability
\* framing, strength-gap, top-threat, overtake-timing, hotspot, style tip,
\* matchup-disadvantage, penalty, crash, pace summary, each kind at most
\* once; the win-probability framing is first, the pace summary present and
\* last; and each rule fires exactly when its own condition holds, whatever
\* the other rules do.
C13_AdviceOrder ==
  pc = "done" =>
    /\ \A i \in 1..Len(ret.advice) : ret.advice[i].kind \in Range(AdviceOrder)
    /\ \A i, j \in 1..Len(ret.advice) :
         i < j => rankOf(ret.advice[i].kind) < rankOf(ret.advice[j].kind)
    /\ ret.advice[1].kind = "winProbability"
    /\ ret.advice[Len(ret.advice)].kind = "paceSummary"
    /\ hasAdvice("strengthGap")
         <=> (ret.winProbability.strengthAdj > 15 \/ ret.winProbability.strengthAdj < -15)
    /\ hasAdvice("topThreat")
         <=> \E i \in 1..Len(args.opponents) : args.opponents[i].threat_score >= 50
    /\ hasAdvice("overtakeTiming") <=> Len(tableFor("overtake_timing")) > 0
    /\ hasAdvice("hotspots") <=> Len(tableFor("hotspot_laps")) > 0
    /\ hasAdvice("style")
         <=> ret.style \in { "late_mover", "front_runner", "mid_surge", "balanced", "no_passes" }
    /\ hasAdvice("matchupDisadvantage")
         <=> \E i \in 1..Len(ret.matchupInsights) : ret.matchupInsights[i].disadvantage
    /\ hasAdvice("penalty")
         <=> \E i \in 1..Len(args.opponents) : isPenaltyDanger(args.opponents[i])
    /\ hasAdvice("crash")
         <=> \E i \in 1..Len(args.opponents) : isCrashDanger(args.opponents[i])

\* all ten rules fire in one advice list
C13_Witness ==
  /\ pc = "done"
  /\ [i \in 1..Len(ret.advice) |-> ret.advice[i].kind] = AdviceOrder

\* the shortest advice list: the two rules that always fire
C13_WitnessShortest ==
  /\ pc = "done"
  /\ [i \in 1..Len(ret.advice) |-> ret.advice[i].kind] = << "winProbability", "paceSummary" >>

\* C14 (SpecCustom): for every slider input (pass_rate and passed_rate
\* integers 0..10, threat 0..100, any style) the profile has total_races 10,
\* net_passes = total_passes_made - total_times_passed, avg_passes_per_race
\* = total_passes_made / total_races, and non-negative passes_early,
\* passes_middle, passes_late that sum to total_passes_made.
C14_CustomSkaterInvariants ==
  pc = "done" =>
    /\ ret.stats.total_races = 10
    /\ ret.stats.total_passes_made = args.pass_rate * 10
    /\ ret.stats.total_times_passed = args.passed_rate * 10
    /\ ret.stats.net_passes = ret.stats.total_passes_made - ret.stats.total_times_passed
    /\ ret.stats.avg_passes_per_race * ret.stats.total_races
         = ret.stats.total_passes_made * 1000
    /\ ret.stats.passes_early >= 0
    /\ ret.stats.passes_middle >= 0
    /\ ret.stats.passes_late >= 0
    /\ ret.stats.passes_early + ret.stats.passes_middle + ret.stats.passes_late
         = ret.stats.total_passes_made

\* a custom skater passed more often than passing, with a split that needs
\* rounding
C14_Witness ==
  /\ pc = "done"
  /\ args.style = "mid_surge"
  /\ args.pass_rate = 1
  /\ args.passed_rate = 6
  /\ ret.stats.net_passes = -50
  /\ ret.stats.passes_early = 3
  /\ ret.stats.passes_middle = 5
  /\ ret.stats.passes_late = 2

\* part is made * pct / 100 rounded to the nearest integer, halves up
isShare(part, made, pct) ==
  /\ 200 * part <= 2 * pct * made + 100
  /\ 200 * part > 2 * pct * made - 100

\* part is a third of made, rounded down or up
isThird(part, made) == 3 * part > made - 3 /\ 3 * part < made + 3

fixedStyleSplits ==
  LET st == ret.stats
      made == st.total_passes_made
  IN /\ args.style = "front_runner" =>
          /\ isShare(st.passes_early, made, 50)
          /\ isShare(st.passes_middle, made, 30)
          /\ isShare(st.passes_late, made, 20)
     /\ args.style = "late_mover" =>
          /\ isShare(st.passes_early, made, 20)
          /\ isShare(st.passes_middle, made, 30)
          /\ isShare(st.passes_late, made, 50)
     /\ args.style = "mid_surge" => isShare(st.passes_middle, made, 50)

eliteLateMover ==
  /\ args.pass_rate = 8
  /\ args.passed_rate = 2
  /\ args.style = "late_mover"

\* C15 as stated (SpecCustom): front_runner gets 50/30/20 percent
\* early/middle/late, late_mover 20/30/50, mid_surge 50 percent in the
\* middle, every other style thirds in early and middle with the remainder
\* in late; pass_rate 8, passed_rate 2, late_mover gives net_passes 60,
\* avg_passes_per_race 8 and more than half of the 80 passes in passes_late.
C15_StyleSplitAsStated ==
  pc = "done" =>
    /\ fixedStyleSplits
    /\ args.style \notin { "front_runner", "late_mover", "mid_surge" } =>
         /\ isThird(ret.stats.passes_early, ret.stats.total_passes_made)
         /\ isThird(ret.stats.passes_middle, ret.stats.total_passes_made)
         /\ ret.stats.passes_late = ret.stats.total_passes_made
              - ret.stats.passes_early - ret.stats.passes_middle
    /\ eliteLateMover =>
         /\ ret.stats.net_passes = 60
         /\ ret.stats.avg_passes_per_race = 8000
         /\ ret.stats.total_passes_made = 80
         /\ 2 * ret.stats.passes_late > ret.stats.total_passes_made

\* C15 amended (SpecCustom): front_runner gets 50/30/20 percent
\* early/middle/late, late_mover 20/30/50, mid_surge 50 percent in the
\* middle and 25 percent (rounded) early, every other style 33 percent
\* early and 34 percent middle (each rounded) with the remainder in late;
\* pass_rate 8, passed_rate 2, late_mover gives net_passes 60,
\* avg_passes_per_race 8 and a 16/24/40 split: passes_late is exactly half
\* of the 80 passes and the largest part.
C15_StyleSplit ==
  pc = "done" =>
    /\ fixedStyleSplits
    /\ args.style = "mid_surge" =>
         /\ isShare(ret.stats.passes_early, ret.stats.total_passes_made, 25)
         /\ ret.stats.passes_late = ret.stats.total_passes_made
              - ret.stats.passes_early - ret.stats.passes_middle
    /\ args.style \notin { "front_runner", "late_mover", "mid_surge" } =>
         /\ isShare(ret.stats.passes_early, ret.stats.total_passes_made, 33)
         /\ isShare(ret.stats.passes_middle, ret.stats.total_passes_made, 34)
         /\ ret.stats.passes_late = ret.stats.total_passes_made
              - ret.stats.passes_early - ret.stats.passes_middle
    /\ eliteLateMover =>
         /\ ret.stats.net_passes = 60
         /\ ret.stats.avg_passes_per_race = 8000
         /\ ret.stats.total_passes_made = 80
         /\ ret.stats.passes_early = 16
         /\ ret.stats.passes_middle = 24
         /\ ret.stats.passes_late = 40

\* the scenario of the claim, and a split that is not in thirds
C15_Witness ==
  /\ pc = "done"
  /\ eliteLateMover
  /\ ret.stats.passes_late = 40
  /\ ret.stats.total_passes_made = 80

C15_WitnessNotThirds ==
  /\ pc = "done"
  /\ args.style = "balanced"
  /\ ret.stats.total_passes_made = 90
  /\ ret.stats.passes_early = 30
  /\ ret.stats.passes_middle = 31
  /\ ret.stats.passes_late = 29

strategyTable(table) == Get(Get(args.models, "strategy"), table)

\* the lane-advantage table has no entry for the requested distance and lane
laneEntryMissing == ~Has(Get(strategyTable("lane_advantage"), args.distance), args.lane)

\* the podium probability is the one computed from a top-2 base of 40
podiumFromBase40 ==
  ret.winProbability.podium
    = podiumOf(400 + ret.winProbability.strengthAdj * 8 + ret.winProbability.matchupAdj * 5)

noHotspotLap == \A lap \in DOMAIN ret.lapPlan : ~ret.lapPlan[lap].hotspot

C16_WitnessNull ==
  /\ pc = "done"
  /\ IsNull(args.models)
  /\ Len(args.opponents) = 2
  /\ ret.winProbability.laneBase = 20
  /\ ret.winProbability.strengthAdj # 0

isNumber(x) == x # NaN

\* C17 as stated (SpecPartial): buildOpponentThreat yields a number for
\* every numeric field of a profile that lacks stats, and generateStrategy
\* with such a competitor and such opponents returns a win probability
\* with 1 <= overall <= 99 and 2 <= podium <= 99.
C17_MissingStatsDefaultAsStated ==
  pc = "done" =>
    /\ \A i \in 1..Len(args.opponents) :
         LET o == args.opponents[i]
         IN /\ isNumber(o.threat_score)
            /\ isNumber(o.net_passes)
            /\ isNumber(o.avg_passes_per_race)
            /\ isNumber(o.total_races)
            /\ isNumber(o.medals_total)
            /\ isNumber(o.penalties)
            /\ isNumber(o.crash_count)
            /\ isNumber(o.penalty_rate)
            /\ isNumber(o.crash_rate)
    /\ ret.winProbability.overall \in 1..99
    /\ ret.winProbability.podium \in 2..99

\* what does hold (SpecPartial): a competitor who lacks any of the stats,
\* and opponents who lack only threat score, medals or discipline fields,
\* get a win probability in range
C17_DefaultedFields ==
  pc = "done" =>
    /\ \A i \in 1..Len(args.opponents) :
         LET o == args.opponents[i]
         IN /\ isNumber(o.threat_score)
            /\ isNumber(o.medals_total)
            /\ isNumber(o.penalties)
            /\ isNumber(o.crash_count)
            /\ isNumber(o.penalty_rate)
            /\ isNumber(o.crash_rate)
    /\ (\A i \in 1..Len(args.opponents) :
          /\ isNumber(args.opponents[i].net_passes)
          /\ isNumber(args.opponents[i].avg_passes_per_race)
          /\ isNumber(args.opponents[i].total_races))
       => /\ ret.winProbability.overall \in 1..99
          /\ ret.winProbability.podium \in 2..99

\* a competitor with no stats at all against an opponent who lacks only
\* the discipline fields: every default applies and the result is in range
C17_WitnessDefaults ==
  /\ pc = "done"
  /\ args.mySkater = Hong
  /\ Len(args.opponents) = 1
  /\ args.opponents[1].name = "Jang"
  /\ args.opponents[1].penalty_rate = 0
  /\ ret.style = "balanced"
  /\ ret.winProbability.overall \in 1..99

\* an opponent without net_passes: the win probability is not a number
C17_WitnessNaN ==
  /\ pc = "done"
  /\ Len(args.opponents) = 1
  /\ args.opponents[1].name = "Ito"
  /\ args.opponents[1].net_passes = NaN
  /\ ret.winProbability.overall = NaN
  /\ ret.winProbability.podium = NaN

\* C18 (Spec): generateStrategy leaves its inputs unchanged: after the call
\* the caller's opponents array has the same elements in the same order,
\* and the competitor profile and the aggregate tables are what they were
\* before the call.
C18_InputsUnchanged ==
  [][(pc = "call" /\ pc' = "done") =>
       /\ args'.opponents = args.opponents
       /\ args'.mySkater = args.mySkater
       /\ args'.models = args.models
       /\ args' = args]_vars

\* a call whose opponents were not in threat order and whose timing table
\* was not in count order: the result is sorted, the arguments are not
C18_Witness ==
  /\ pc = "done"
  /\ Len(args.opponents) = 3
  /\ args.opponents # ret.opponentThreats
  /\ args.opponents[1].threat_score < args.opponents[3].threat_score
  /\ args.distance = "1500"
  /\ ~IsNull(args.models)
  /\ hasAdvice("overtakeTiming")

allSettled == \A f \in DataFiles : args[f] \in { "ok", "failed" }

requiredFailed == \E f \in RequiredFiles : args[f] = "failed"

loadedView == ~ret.loading /\ ret.error = Null

loadFailureView == ~ret.loading /\ ret.error # Null

\* C19 (SpecLoaderFair): the loader starts in the loading state and stays
\* in it until loadData resumes; once all fetches have settled it ends, for
\* good, in exactly one of loaded (loading false, error null) and
\* load-failure (loading false, error set); a failed manifest, skaters or
\* events fetch gives load-failure, failures of optional files only give
\* loaded with [] or null in their place; and generateStrategy is never
\* invoked while the loader is loading or in load-failure.
C19_LoaderEndsLoadedOrFailed ==
  /\ ret.loading /\ ret.error = Null
  /\ [](pc.loadData # "returned" => ret.loading)
  /\ [](pc.loadData = "returned" =>
          /\ loadedView \/ loadFailureView
          /\ loadFailureView <=> requiredFailed
          /\ loadedView =>
               \A f \in DataFiles :
                 ret[f] = IF args[f] = "failed" THEN catchDefault(f) ELSE "loaded")
  /\ allSettled ~> (loadedView \/ loadFailureView)
  /\ [](loadedView => []loadedView)
  /\ [](loadFailureView => []loadFailureView)
  /\ [][pc'.calls # pc.calls => (loadedView /\ pc'.calls = pc.calls + 1)]_vars

\* a strategy generated after the models file alone failed to load
C19_Witness ==
  /\ pc.loadData = "returned"
  /\ args["models"] = "failed"
  /\ \A f \in DataFiles \ { "models" } : args[f] = "ok"
  /\ loadedView
  /\ ret.models = "null"
  /\ ret.heats = "loaded"
  /\ pc.calls = 1

\* the failure screen while optional fetches are still pending
C19_WitnessFailure ==
  /\ pc.loadData = "returned"
  /\ args["skaters"] = "failed"
  /\ args["heats"] = "pending"
  /\ loadFailureView
  /\ pc.calls = 0

occurrences(s, x) == Cardinality({ i \in 1..Len(s) : s[i] = x })

positionIn(s, x) == CHOOSE k \in 1..Len(s) : s[k] = x

\* C20 (Spec): opponentThreats is a permutation of the input opponents in
\* order of non-increasing threat_score, opponents with equal threat_score
\* in their input order; pace, matchup insights, win probability and advice
\* are the ones computed from this sorted list, so the top-threat item names
\* its first element.
C20_OpponentsSortedStable ==
  pc = "done" =>
    LET sorted  == ret.opponentThreats
        laneAdv == Get(Get(strategyTable("lane_advantage"), args.distance), args.lane)
    IN /\ Len(sorted) = Len(args.opponents)
       /\ \A x \in Range(args.opponents) \cup Range(sorted) :
            occurrences(sorted, x) = occurrences(args.opponents, x)
       /\ \A i, j \in 1..Len(sorted) :
            i < j => sorted[i].threat_score >= sorted[j].threat_score
       /\ \A i, j \in 1..Len(args.opponents) :
            (i < j /\ args.opponents[i].threat_score = args.opponents[j].threat_score)
              => positionIn(sorted, args.opponents[i]) < positionIn(sorted, args.opponents[j])
       /\ ret.pace = computePace(ret.style, args.distance, args.lane, sorted)
       /\ ret.matchupInsights
            = buildMatchupInsights(ret.style, sorted, strategyTable("style_matchups"))
       /\ ret.winProbability
            = computeWinProbability(args.mySkater, args.lane, args.distance,
                                    sorted, ret.matchupInsights, laneAdv)
       /\ ret.advice
            = generateAdvice(ret.style, args.distance, args.lane, laneAdv, sorted,
                             ret.pace, tableFor("overtake_timing"),
                             tableFor("hotspot_laps"), ret.matchupInsights,
                             ret.winProbability)
       /\ \A k \in 1..Len(ret.advice) :
            ret.advice[k].kind = "topThreat" => ret.advice[k].text[1] = sorted[1].name

\* two opponents with the same rounded score given after a weaker one and
\* before a stronger one: the sort moves them and keeps their order
C20_Witness ==
  /\ pc = "done"
  /\ Len(args.opponents) = 4
  /\ args.opponents[1].name = "Choi"
  /\ args.opponents[2].name = "Fan"
  /\ args.opponents[3].name = "Boutin"
  /\ args.opponents[4].name = "Ahn"
  /\ args.opponents[2].threat_score = args.opponents[3].threat_score
  /\ [i \in 1..4 |-> ret.opponentThreats[i].name] = << "Ahn", "Fan", "Boutin", "Choi" >>

\* the other order: the base triple normalized to 100 first, the distance,
\* lane and field adjustments applied afterwards
normalizeThenAdjust(style, distance, lane, opponents) ==
  fieldAdjust(laneAdjust(distanceAdjust(normalizePace(paceBase(style)), distance), lane),
              opponents)

\* C21 as stated (SpecPace): there is at least one input (style, distance,
\* lane, opponents) for which normalizing the base triple before the
\* adjustments gives a different pace than adjusting first and normalizing
\* last.
C21_OrderLoadBearingAsStated ==
  pc \in { "call", "done" } =>
    \E a \in PaceInputs :
      computePace(a.style, a.distance, a.lane, a.opponents)
        # normalizeThenAdjust(a.style, a.distance, a.lane, a.opponents)

\* C21 amended (SpecPace): the order is not load-bearing.  Every base
\* triple sums to 100 and every adjustment moves weight without changing
\* the sum, so for every input normalizing the base triple before the
\* adjustments gives the same pace as adjusting first and normalizing last.
C21_OrderNotLoadBearing ==
  pc = "done" =>
    /\ paceBase(args.style).early + paceBase(args.style).middle
         + paceBase(args.style).late = 100
    /\ ret = normalizeThenAdjust(args.style, args.distance, args.lane, args.opponents)

\* a call in which all three adjustments change the base triple
C21_Witness ==
  /\ pc = "done"
  /\ args.style = "late_mover"
  /\ args.distance = "1500"
  /\ args.lane = 1
  /\ averageThreatBelow(args.opponents, 25)
  /\ ret = [early |-> 14, middle |-> 38, late |-> 48]
  /\ ret = normalizeThenAdjust(args.style, args.distance, args.lane, args.opponents)

\* the action of a hotspot lap that is not the first or one of the last two
hotspotAction(lap, totalLaps, style) ==
  IF style = "front_runner" /\ 2 * lap <= totalLaps THEN "Attack"
  ELSE IF style = "late_mover" /\ 10 * lap > 6 * totalLaps THEN "Attack"
  ELSE IF style = "mid_surge" /\ 10 * lap > 3 * totalLaps /\ 10 * lap < 7 * totalLaps
  THEN "Surge"
  ELSE "Ready"

\* C22 (SpecPlan): an item has class overtake exactly when its lap is a
\* hotspot lap and none of lap 1, the final lap and the second-to-last lap;
\* on such a lap the action is Attack for front_runner when lap/totalLaps
\* <= 0.5, Attack for late_mover when lap/totalLaps > 0.6, Surge for
\* mid_surge when 0.3 < lap/totalLaps < 0.7 and Ready otherwise; the hotspot
\* flag is true for every hotspot lap, laps 1, last and second-to-last
\* included.
C22_OvertakeOnHotspots ==
  pc = "done" =>
    \A lap \in DOMAIN ret :
      LET free == lap \notin { 1, args.totalLaps, args.totalLaps - 1 }
      IN /\ ret[lap].hotspot <=> lap \in args.hotspotLapNums
         /\ ret[lap].actionClass = "overtake" <=> (lap \in args.hotspotLapNums /\ free)
         /\ (lap \in args.hotspotLapNums /\ free)
              => ret[lap].action = hotspotAction(lap, args.totalLaps, args.style)

\* a late_mover plan of 5 laps with hotspots on lap 3, at exactly 0.6 of
\* the race, and on the second-to-last lap
C22_Witness ==
  /\ pc = "done"
  /\ args.totalLaps = 5
  /\ args.style = "late_mover"
  /\ args.hotspotLapNums = { 3, 4 }
  /\ ret[3].action = "Ready"
  /\ ret[3].actionClass = "overtake"
  /\ ret[4].hotspot
  /\ ret[4].action = "Attack!"
  /\ ret[4].actionClass = "push"

\* C23 as stated (SpecPlan): in every lap plan an item with action Push has
\* class push, one with action Conserve has class conserve and one with
\* action Hold has class hold; a non-hotspot early-phase lap with
\* pace.early >= 35 is a push lap in both label and class.
C23_LabelAndClassAgreeAsStated ==
  pc = "done" =>
    \A lap \in DOMAIN ret :
      /\ ret[lap].action = "Push" => ret[lap].actionClass = "push"
      /\ ret[lap].action = "Conserve" => ret[lap].actionClass = "conserve"
      /\ ret[lap].action = "Hold" => ret[lap].actionClass = "hold"
      /\ (/\ ~ret[lap].hotspot
          /\ ret[lap].phase = "Early"
          /\ lap # 1
          /\ args.pace.early >= 35)
           => (ret[lap].action = "Push" /\ ret[lap].actionClass = "push")

\* what does hold (SpecPlan): the label and the class agree on every lap
\* except the non-hotspot early-phase laps after lap 1 of a plan with
\* pace.early >= 35, which are labelled Push with class hold
C23_LabelAndClassAgreeElsewhere ==
  pc = "done" =>
    \A lap \in DOMAIN ret :
      LET earlyPush == /\ ~ret[lap].hotspot
                       /\ ret[lap].phase = "Early"
                       /\ lap # 1
                       /\ args.pace.early >= 35
      IN /\ earlyPush => (ret[lap].action = "Push" /\ ret[lap].actionClass = "hold")
         /\ ~earlyPush =>
              /\ ret[lap].action = "Push" => ret[lap].actionClass = "push"
              /\ ret[lap].action = "Conserve" => ret[lap].actionClass = "conserve"
              /\ ret[lap].action = "Hold" => ret[lap].actionClass = "hold"

\* lap 2 of a 9-lap front-loaded plan: labelled Push, classed hold
C23_WitnessMismatch ==
  /\ pc = "done"
  /\ args.totalLaps = 9
  /\ args.hotspotLapNums = {}
  /\ args.pace.early = 40
  /\ ret[2].phase = "Early"
  /\ ret[2].action = "Push"
  /\ ret[2].actionClass = "hold"

\* the level the opponent chips of the setup form show:
\* computeThreatLevel(opp.threat_score), on the rounded score of the record
chipLevel(opp) == computeThreatLevel(opp.threat_score * 10)

\* C24 as stated (SpecThreat): for every profile threat score in 0..100,
\* whole or not, the threatLevel of the record built by buildOpponentThreat
\* is computeThreatLevel of the record's own threat_score, the level the
\* setup form recomputes.
C24_ThreatLevelSelfConsistentAsStated ==
  pc = "done" => ret.threatLevel = chipLevel(ret)

\* what does hold (SpecThreat): the stored level is the level of the score
\* before rounding, and it differs from the level of the rounded score
\* exactly for scores in [29.5, 30) and [59.5, 60)
C24_LevelOfUnroundedScore ==
  pc = "done" =>
    /\ ret.threatLevel = computeThreatLevel(args.stats.threat_score)
    /\ ret.threatLevel # chipLevel(ret)
         <=> \/ (args.stats.threat_score >= 295 /\ args.stats.threat_score < 300)
             \/ (args.stats.threat_score >= 595 /\ args.stats.threat_score < 600)

\* a profile score of 59.6: the record says 60 and medium, the chip high
C24_WitnessMismatch ==
  /\ pc = "done"
  /\ args.stats.threat_score = 596
  /\ ret.threat_score = 60
  /\ ret.threatLevel = "medium"
  /\ chipLevel(ret) = "high"

\* the only opponent is the competitor's own profile
facingOwnProfile ==
  /\ Len(args.opponents) = 1
  /\ args.opponents[1] = buildOpponentThreat(args.mySkater)

\* C25 as stated (Spec): when the only opponent is built by
\* buildOpponentThreat from the competitor's own profile, strengthAdj is 0,
\* for every profile, ones with gold or silver medals included.
C25_StrengthSymmetricAsStated ==
  (pc = "done" /\ facingOwnProfile) => ret.winProbability.strengthAdj = 0

\* what does hold (Spec): against the own profile strengthAdj is 0 when the
\* profile has no gold or silver medal, a whole threat score and an
\* avg_passes_per_race of at most two decimals, and it is never negative
C25_SymmetricWithoutMedals ==
  (pc = "done" /\ facingOwnProfile) =>
    /\ ret.winProbability.strengthAdj >= 0
    /\ (/\ args.mySkater.stats.medals.gold = 0
        /\ args.mySkater.stats.medals.silver = 0
        /\ args.mySkater.stats.threat_score % 10 = 0
        /\ args.mySkater.stats.avg_passes_per_race % 10 = 0)
         => ret.winProbability.strengthAdj = 0

\* three golds and a silver against the same profile: an edge of 12 points
\* of strength over oneself
C25_WitnessAsymmetric ==
  /\ pc = "done"
  /\ facingOwnProfile
  /\ args.mySkater.name = "Ahn"
  /\ ret.winProbability.strengthAdj > 0

C25_WitnessSymmetric ==
  /\ pc = "done"
  /\ facingOwnProfile
  /\ args.mySkater.name = "Choi"
  /\ ret.winProbability.strengthAdj = 0

\* C26 as stated (SpecWin): in every WinProbability the podium probability
\* is at least the win probability, for every lane-advantage record, with
\* or without a top-2 rate, competitor, opponent list and matchup insights.
C26_PodiumAtLeastOverallAsStated ==
  pc = "done" => ret.podium >= ret.overall

\* what does hold (SpecWin): podium >= overall when there is no lane record
\* at all, so that both defaults, 20 and 40, apply
C26_PodiumAtLeastOverallByDefault ==
  (pc = "done" /\ IsNull(args.laneAdvData)) => ret.podium >= ret.overall

\* a lane record with a win rate and no top-2 rate, and a competitor well
\* above the field: more likely to win than to reach the podium
C26_WitnessBelow ==
  /\ pc = "done"
  /\ Has(args.laneAdvData, "win_rate")
  /\ ~Has(args.laneAdvData, "top2_rate")
  /\ ret.laneBase = 34
  /\ ret.strengthAdj > 30
  /\ ret.matchupAdj = 0
  /\ ret.podium < ret.overall

\* the same opponents in every other order
Reorderings(q) ==
  { r \in [1..Len(q) -> Range(q)] : Range(r) = Range(q) }

samePaceAndWin(a, b) ==
  /\ a.pace = b.pace
  /\ a.winProbability.overall = b.winProbability.overall
  /\ a.winProbability.podium = b.winProbability.podium
  /\ a.winProbability.strengthAdj = b.winProbability.strengthAdj
  /\ a.winProbability.matchupAdj = b.winProbability.matchupAdj

strategyFor(opponents) ==
  generateStrategy(args.mySkater, args.distance, args.lane, opponents, args.models)

\* C27 as stated (SpecTies): the pace and the win probability (overall,
\* podium, strengthAdj, matchupAdj) of generateStrategy are the same for
\* every order in which the same opponents are given, also when four or
\* more opponents share a threat score.
C27_OrderIndependentAsStated ==
  pc = "done" =>
    \A r \in Reorderings(args.opponents) : samePaceAndWin(strategyFor(r), ret)

\* what does hold (SpecTies): the pace and strengthAdj are the same for every
\* order, and so is the whole win probability of a heat of at most three
\* opponents
C27_OrderIndependentUpToThree ==
  pc = "done" =>
    \A r \in Reorderings(args.opponents) :
      /\ strategyFor(r).pace = ret.pace
      /\ strategyFor(r).winProbability.strengthAdj = ret.winProbability.strengthAdj
      /\ Len(args.opponents) <= 3 => samePaceAndWin(strategyFor(r), ret)

\* four opponents of one threat score: the fourth given is left out of the
\* matchup insights, and another order gives another win probability
C27_WitnessTies ==
  /\ pc = "done"
  /\ Len(args.opponents) = 4
  /\ \A i \in 1..3 : args.opponents[i].threat_score = args.opponents[i + 1].threat_score
  /\ \E r \in Reorderings(args.opponents) :
       /\ strategyFor(r).winProbability.matchupAdj # ret.winProbability.matchupAdj
       /\ strategyFor(r).winProbability.overall # ret.winProbability.overall

\* the picked profiles with the score of args.who raised by args.by, at
\* most to 100.0
raisedProfiles ==
  [args.profiles EXCEPT ![args.who].stats.threat_score = Min(1000, @ + args.by)]

raisedStrategy == strategyFor(BuiltList(raisedProfiles))

\* C28 as stated (SpecRaise): with the competitor, lane, distance and
\* tables fixed, raising one opponent's threat score never increases the
\* overall win probability of generateStrategy.
C28_RaisedThreatNeverHelpsAsStated ==
  pc = "done" =>
    raisedStrategy.winProbability.overall <= ret.winProbability.overall

\* what does hold (SpecRaise): strengthAdj never increases, and neither does
\* overall in a heat of at most three opponents
C28_RaisedThreatNeverHelpsUpToThree ==
  pc = "done" =>
    /\ raisedStrategy.winProbability.strengthAdj <= ret.winProbability.strengthAdj
    /\ Len(args.opponents) <= 3 =>
         raisedStrategy.winProbability.overall <= ret.winProbability.overall

\* the raised opponent moves into the first three of the sorted list, its
\* style is a favourable matchup, and the win probability goes up
C28_WitnessHelps ==
  /\ pc = "done"
  /\ Len(args.opponents) = 4
  /\ ret.opponentThreats[4].name = args.profiles[args.who].name
  /\ raisedStrategy.opponentThreats[1].name = args.profiles[args.who].name
  /\ raisedStrategy.winProbability.matchupAdj > ret.winProbability.matchupAdj
  /\ raisedStrategy.winProbability.overall > ret.winProbability.overall

\* the raised score lowers the win probability
C28_WitnessHurts ==
  /\ pc = "done"
  /\ raisedStrategy.winProbability.overall < ret.winProbability.overall

\* C29 as stated (SpecPlan): for total laps 5, 9 and 14, every lap of the
\* pace bar's early range is labelled Early in the lap plan, every lap of
\* its middle range Mid and every lap of its late range Late.
C29_PaceBarMatchesPlanAsStated ==
  pc = "done" =>
    \A lap \in 1..args.totalLaps :
      ret[lap].phase = paceBarPhase(lap, args.totalLaps)

\* what does hold (SpecPlan): the plan's Early laps lie in the bar's early
\* range, the bar's late range lies in the plan's Late laps, and the two
\* differ on at most the last lap of the bar's early and middle ranges
C29_PaceBarRangesContainPlan ==
  pc = "done" =>
    \A lap \in 1..args.totalLaps :
      /\ ret[lap].phase = "Early" => paceBarPhase(lap, args.totalLaps) = "Early"
      /\ paceBarPhase(lap, args.totalLaps) = "Late" => ret[lap].phase = "Late"
      /\ ret[lap].phase # paceBarPhase(lap, args.totalLaps) =>
           lap \in { earlyEnd(args.totalLaps), midEnd(args.totalLaps) }

\* 9 laps: the bar prints "Laps 1-3" as early and "Laps 4-7" as middle, the
\* plan labels lap 3 Mid and lap 7 Late
C29_WitnessNineLaps ==
  /\ pc = "done"
  /\ args.totalLaps = 9
  /\ earlyEnd(9) = 3 /\ midEnd(9) = 7
  /\ ret[3].phase = "Mid"
  /\ ret[7].phase = "Late"

\* C30 (SpecForm): after any sequence of add-from-search, add-custom and
\* remove events the opponent list of the setup form holds at most 7
\* entries, although the limit is checked against the length the callback
\* captured and the list is changed by a functional update.
C30_AtMostSevenOpponents ==
  Len(ret.opponents) <= OpponentLimit

\* seven opponents, added from the search box and from the custom form,
\* with a removal in between: the search box and the form are gone
C30_WitnessFull ==
  /\ Len(ret.opponents) = OpponentLimit
  /\ ret.opponents[1] = CustomOpponent
  /\ ret.opponents[OpponentLimit] = SearchedOpponent
  /\ \E i \in 2..OpponentLimit : ret.opponents[i] = CustomOpponent
  /\ pc.queue = <<>>
  /\ ~searchShown(args)
  /\ ~customFormShown(args)

\* the seventh opponent is requested by a callback that captured length 6
C30_WitnessSeventhRequested ==
  /\ args.length = OpponentLimit - 1
  /\ Len(pc.queue) = 2
  /\ pc.queue[1].op = "append"

====
